---------------------------- MODULE Spec2Model ----------------------------
(***************************************************************************)
(* A model of the Geo identity, alias-merging and key-derivation core of   *)
(* intertwine/geos/models.py.                                              *)
(*                                                                         *)
(* Strings are sequences of one-character strings, so that the key         *)
(* transformation of Geo.create_key is computed character by character.    *)
(* Python's None is the one-element sequence None, which is no string of   *)
(* the alphabet.                                                           *)
(***************************************************************************)
EXTENDS Integers, Sequences, FiniteSets, TLC

VARIABLES
    kin,            \* arguments of the call of the function under check
    kout,           \* its result
    live,           \* the geos that have been constructed
    name,           \* Geo._name
    abbrev,         \* Geo._abbrev
    qualifier,      \* Geo._qualifier
    path_parent,    \* Geo._path_parent (NoGeo when None)
    human_id,       \* Geo._human_id
    registry,       \* Trackable registry of Geo: human_id -> geo
    alias_targets,  \* Geo._alias_targets, as a set (the code never appends a duplicate)
    parents,        \* geo_parent_child_association: pairs <<child, parent>>
    data,           \* Geo._data: the GeoData of a geo (NoData when None)
    levels,         \* Geo._levels: the GeoLevels of a geo
    ids,            \* the GeoIDs that have been constructed
    iod,            \* an InsertableOrderedDict: _iod, _beg and _end
    pcr,            \* a ProblemConnectionRating and the aggregate of its community
    budget          \* the assignments the behaviour may still make

vars == <<kin, kout, live, name, abbrev, qualifier, path_parent, human_id,
          registry, alias_targets, parents, data, levels, ids, iod, pcr, budget>>

-----------------------------------------------------------------------------
(* Strings *)

None == <<"None">>

S_US == <<"U", ".", "S", ".">>
S_TX == <<"T", "X">>
S_Austin == <<"A", "u", "s", "t", "i", "n">>
S_AcB == <<"A", ",", " ", "B">>
S_AsB == <<"A", "/", "B">>
S_A_B == <<"A", " ", "B">>
S_cdp == <<"c", "d", "p">>

UpperCase == <<"A", "B", "C", "D", "E", "F", "G", "H", "I", "J", "K", "L", "M",
               "N", "O", "P", "Q", "R", "S", "T", "U", "V", "W", "X", "Y", "Z">>
LowerCase == <<"a", "b", "c", "d", "e", "f", "g", "h", "i", "j", "k", "l", "m",
               "n", "o", "p", "q", "r", "s", "t", "u", "v", "w", "x", "y", "z">>

\* the characters of the model in code-point order
CodePoints == <<" ", ",", "-", ".", "/">> \o UpperCase \o <<"_">> \o LowerCase
Chars == {CodePoints[i] : i \in 1..Len(CodePoints)}

\* str.lower() on one character
LowerChar ==
    [c \in Chars |->
        IF \E i \in 1..Len(UpperCase) : UpperCase[i] = c
        THEN LowerCase[CHOOSE i \in 1..Len(UpperCase) : UpperCase[i] = c]
        ELSE c]

\* str.lower()
Lower(s) == [i \in 1..Len(s) |-> LowerChar[s[i]]]

\* str.replace(old, new): leftmost non-overlapping occurrences, old non-empty
RECURSIVE Replace(_, _, _)
Replace(s, old, new) ==
    IF Len(s) < Len(old) THEN s
    ELSE IF SubSeq(s, 1, Len(old)) = old
         THEN new \o Replace(SubSeq(s, Len(old) + 1, Len(s)), old, new)
         ELSE <<s[1]>> \o Replace(Tail(s), old, new)

\* truthiness of an optional string: None and '' are false
Truthy(s) == s # None /\ s # <<>>

PATH_DELIMITER == <<"/">>

-----------------------------------------------------------------------------
(* Geo.create_key *)

\* nametag before the transformation
Nametag(nm, ab, ql) ==
    (IF Truthy(ab) THEN ab ELSE nm) \o (IF Truthy(ql) THEN <<" ">> \o ql ELSE <<>>)

\* the chain of replacements of create_key, in the order the code applies them
TransformNametag(tag) ==
    Replace(Lower(Replace(Replace(Replace(tag, <<".">>, <<>>),
                                  <<",", " ">>, <<"_">>),
                          <<" ">>, <<"_">>)),
            <<"/">>, <<"-">>)

\* create_key without the replacements and the lowercasing of the nametag
create_key_untransformed(nm, ab, ql, ppKey) ==
    (IF ppKey # None THEN ppKey \o PATH_DELIMITER ELSE <<>>) \o Nametag(nm, ab, ql)

\* ppKey is the path parent's human_id, or None when there is no path parent
create_key(nm, ab, ql, ppKey) ==
    (IF ppKey # None THEN ppKey \o PATH_DELIMITER ELSE <<>>)
        \o TransformNametag(Nametag(nm, ab, ql))

-----------------------------------------------------------------------------
(* The arena of geos *)

NoGeo == 0
NoData == 0

\* the geos of the arena: handles of the Geo objects that may be constructed
NGeos == 3
Geos == 1..NGeos

\* no geo has been constructed
EmptyGraph ==
    [live |-> {}, name |-> [g \in Geos |-> None], abbrev |-> [g \in Geos |-> None],
     qualifier |-> [g \in Geos |-> None], path_parent |-> [g \in Geos |-> NoGeo],
     human_id |-> [g \in Geos |-> None], registry |-> {},
     alias_targets |-> [g \in Geos |-> {}], parents |-> {},
     data |-> [g \in Geos |-> NoData], levels |-> [g \in Geos |-> {}],
     err |-> "ok"]

\* the state is the graph st, with n assignments left to make
Start(st, n) ==
    /\ live = st.live
    /\ name = st.name
    /\ abbrev = st.abbrev
    /\ qualifier = st.qualifier
    /\ path_parent = st.path_parent
    /\ human_id = st.human_id
    /\ registry = st.registry
    /\ alias_targets = st.alias_targets
    /\ parents = st.parents
    /\ data = st.data
    /\ levels = st.levels
    /\ budget = n
    /\ ids = {}
    /\ iod = None
    /\ pcr = None

graphVars == <<live, name, abbrev, qualifier, path_parent, human_id, registry,
               alias_targets, parents, data, levels, budget>>

geoVars == <<graphVars, ids, iod, pcr>>

-----------------------------------------------------------------------------
(* The object graph as a value.  A call is a function from graph to graph;
   a raised exception is recorded in err, and the statements after the
   raising one are skipped, so whatever was mutated before it stays.       *)

Graph ==
    [live |-> live, name |-> name, abbrev |-> abbrev, qualifier |-> qualifier,
     path_parent |-> path_parent, human_id |-> human_id, registry |-> registry,
     alias_targets |-> alias_targets, parents |-> parents, data |-> data,
     levels |-> levels, err |-> "ok"]

Ok(st) == st.err = "ok"
Raise(st, e) == [st EXCEPT !.err = e]

\* the statements F after a call that returned the graph v: skipped when the
\* call raised
Then(v, F(_)) == CHOOSE r \in {IF x.err = "ok" THEN F(x) ELSE x : x \in {v}} : TRUE

\* the graph st becomes the state, whether the call returned or raised; cost
\* is what the call takes of the budget
Commit(st, cost) ==
    /\ live' = st.live
    /\ name' = st.name
    /\ abbrev' = st.abbrev
    /\ qualifier' = st.qualifier
    /\ path_parent' = st.path_parent
    /\ human_id' = st.human_id
    /\ registry' = st.registry
    /\ alias_targets' = st.alias_targets
    /\ parents' = st.parents
    /\ data' = st.data
    /\ levels' = st.levels
    /\ budget' = budget - cost
    /\ UNCHANGED <<kin, kout, ids, iod, pcr>>

\* a set of geos in ascending handle order (the order rows come back in)
RECURSIVE InOrder(_)
InOrder(S) ==
    IF S = {} THEN <<>>
    ELSE LET m == CHOOSE x \in S : \A y \in S : x <= y
         IN <<m>> \o InOrder(S \ {m})

-----------------------------------------------------------------------------
(* The Trackable registry of Geo *)

KeyRegistered(st, key) == \E e \in st.registry : e[1] = key

\* Trackable.register_update once the key is known to be new and free:
\* the old entry is removed, the new one inserted and the field set
ReKey(st, g, key) ==
    [st EXCEPT !.registry = (@ \ {<<st.human_id[g], g>>}) \cup {<<key, g>>},
               !.human_id[g] = key]

-----------------------------------------------------------------------------
(* Geo.human_id setter and the rename cascade *)

\* Geo.path_children (backref of _path_parent)
path_children(st, g) == {c \in Geos : st.path_parent[c] = g}

\* the key of st's geo were its attributes nm, ab, ql and its path parent pp
KeyOf(st, nm, ab, ql, pp) ==
    create_key(nm, ab, ql, IF pp = NoGeo THEN None ELSE st.human_id[pp])

\* depth of Python's call stack left to a recursive call
RecursionLimit == 6

RECURSIVE set_human_id(_, _, _, _)
RECURSIVE CascadeOver(_, _, _, _)

\* for pc in self.path_children: pc.human_id = create_key(..., path_parent=self)
CascadeOver(st, g, kids, fuel) ==
    IF kids = <<>> THEN st
    ELSE Then(set_human_id(st, Head(kids),
                           KeyOf(st, st.name[Head(kids)], st.abbrev[Head(kids)],
                                 st.qualifier[Head(kids)], g),
                           fuel),
              LAMBDA s1 : CascadeOver(s1, g, Tail(kids), fuel))

\* the setter without the refusal of a registered key
set_human_id_unchecked(st, g, val, fuel) ==
    IF fuel = 0 THEN Raise(st, "RecursionError")
    ELSE IF st.human_id[g] = None THEN [st EXCEPT !.human_id[g] = val]
    ELSE IF val = st.human_id[g] THEN st
    ELSE Then(ReKey(st, g, val),
              LAMBDA s1 : CascadeOver(s1, g, InOrder(path_children(st, g)), fuel - 1))

set_human_id(st, g, val, fuel) ==
    IF fuel = 0 THEN Raise(st, "RecursionError")
    ELSE IF st.human_id[g] = None THEN [st EXCEPT !.human_id[g] = val]
    ELSE IF val = st.human_id[g] THEN st
    ELSE IF KeyRegistered(st, val) THEN Raise(st, "KeyRegistered")
    ELSE Then(ReKey(st, g, val),
              LAMBDA s1 : CascadeOver(s1, g, InOrder(path_children(st, g)), fuel - 1))

-----------------------------------------------------------------------------
(* The attribute setters that determine the key *)

\* the name setter, were the key derived anew whether or not the geo has an
\* abbreviation
set_name_rekeying(st, g, val) ==
    Then(IF st.human_id[g] # None
         THEN set_human_id(st, g,
                  KeyOf(st, val, None, st.qualifier[g], st.path_parent[g]),
                  RecursionLimit)
         ELSE st,
         LAMBDA s1 : [s1 EXCEPT !.name[g] = val])

set_name(st, g, val) ==
    Then(IF st.human_id[g] # None /\ st.abbrev[g] = None
         THEN set_human_id(st, g,
                  KeyOf(st, val, None, st.qualifier[g], st.path_parent[g]),
                  RecursionLimit)
         ELSE st,
         LAMBDA s1 : [s1 EXCEPT !.name[g] = val])

set_abbrev(st, g, val) ==
    Then(IF st.human_id[g] # None
         THEN set_human_id(st, g,
                  KeyOf(st, st.name[g], val, st.qualifier[g], st.path_parent[g]),
                  RecursionLimit)
         ELSE st,
         LAMBDA s1 : [s1 EXCEPT !.abbrev[g] = val])

set_qualifier(st, g, val) ==
    Then(IF st.human_id[g] # None
         THEN set_human_id(st, g,
                  KeyOf(st, st.name[g], st.abbrev[g], val, st.path_parent[g]),
                  RecursionLimit)
         ELSE st,
         LAMBDA s1 : [s1 EXCEPT !.qualifier[g] = val])

set_path_parent(st, g, val) ==
    Then(IF st.human_id[g] # None
         THEN set_human_id(st, g,
                  KeyOf(st, st.name[g], st.abbrev[g], st.qualifier[g], val),
                  RecursionLimit)
         ELSE st,
         LAMBDA s1 : [s1 EXCEPT !.path_parent[g] = val])

-----------------------------------------------------------------------------
(* Alias edges and reference transfer *)

Ord(c) == CHOOSE i \in 1..Len(CodePoints) : CodePoints[i] = c

\* string comparison s < t
RECURSIVE StrLess(_, _)
StrLess(s, t) ==
    IF t = <<>> THEN FALSE
    ELSE IF s = <<>> THEN TRUE
    ELSE IF s[1] # t[1] THEN Ord(s[1]) < Ord(t[1])
    ELSE StrLess(Tail(s), Tail(t))

\* order_by='Geo.name' (rows of equal name in handle order)
GeoBefore(st, a, b) ==
    \/ StrLess(st.name[a], st.name[b])
    \/ st.name[a] = st.name[b] /\ a < b

RECURSIVE ByName(_, _)
ByName(st, S) ==
    IF S = {} THEN <<>>
    ELSE LET m == CHOOSE x \in S : \A y \in S \ {x} : GeoBefore(st, x, y)
         IN <<m>> \o ByName(st, S \ {m})

\* Geo.aliases (backref of _alias_targets)
aliases(st, g) == {a \in Geos : g \in st.alias_targets[a]}

\* Geo.parents and Geo.children, both views of the one association
parents_of(st, g) == {p \in Geos : <<g, p>> \in st.parents}
children_of(st, g) == {c \in Geos : <<c, g>> \in st.parents}

\* remove_alias_target that hands the data of the target back to the alias
remove_alias_target_returning(st, g, target) ==
    IF target \notin st.alias_targets[g] THEN Raise(st, "ValueError")
    ELSE [st EXCEPT !.alias_targets[g] = @ \ {target},
                    !.data[g] = st.data[target], !.data[target] = NoData]

\* self._alias_targets.remove(target)
remove_alias_target(st, g, target) ==
    IF target \notin st.alias_targets[g] THEN Raise(st, "ValueError")
    ELSE [st EXCEPT !.alias_targets[g] = @ \ {target}]

PARENTS == "parents"
CHILDREN == "children"
DATA == "data"
LEVELS == "levels"

\* one iteration of the loop of transfer_references, were a value held by
\* the target a conflict whatever the geo itself holds
TransferAttrToEmpty(st, g, geo, attr) ==
    CASE attr = PARENTS ->
           IF parents_of(st, geo) # {} THEN Raise(st, "AttributeConflict")
           ELSE [st EXCEPT !.parents =
                    {e \in (@ \cup {<<geo, p>> : p \in parents_of(st, g)}) : e[1] # g}]
      [] attr = CHILDREN ->
           IF children_of(st, geo) # {} THEN Raise(st, "AttributeConflict")
           ELSE [st EXCEPT !.parents =
                    {e \in (@ \cup {<<c, geo>> : c \in children_of(st, g)}) : e[2] # g}]
      [] attr = DATA ->
           IF st.data[geo] # NoData THEN Raise(st, "AttributeConflict")
           ELSE [st EXCEPT !.data[geo] = st.data[g], !.data[g] = NoData]
      [] attr = LEVELS ->
           IF st.levels[geo] # {} THEN Raise(st, "AttributeConflict")
           ELSE [st EXCEPT !.levels[geo] = st.levels[g], !.levels[g] = {}]

\* one iteration of the loop of transfer_references
TransferAttr(st, g, geo, attr) ==
    CASE attr = PARENTS ->
           IF parents_of(st, g) = {} THEN st
           ELSE IF parents_of(st, geo) # {} THEN Raise(st, "AttributeConflict")
           ELSE [st EXCEPT !.parents =
                    {e \in (@ \cup {<<geo, p>> : p \in parents_of(st, g)}) : e[1] # g}]
      [] attr = CHILDREN ->
           IF children_of(st, g) = {} THEN st
           ELSE IF children_of(st, geo) # {} THEN Raise(st, "AttributeConflict")
           ELSE [st EXCEPT !.parents =
                    {e \in (@ \cup {<<c, geo>> : c \in children_of(st, g)}) : e[2] # g}]
      [] attr = DATA ->
           IF st.data[g] = NoData THEN st
           ELSE IF st.data[geo] # NoData THEN Raise(st, "AttributeConflict")
           ELSE [st EXCEPT !.data[geo] = st.data[g], !.data[g] = NoData]
      [] attr = LEVELS ->
           IF st.levels[g] = {} THEN st
           ELSE IF st.levels[geo] # {} THEN Raise(st, "AttributeConflict")
           ELSE [st EXCEPT !.levels[geo] = st.levels[g], !.levels[g] = {}]

\* order is the iteration order of the attributes dict
RECURSIVE transfer_references(_, _, _, _)
transfer_references(st, g, geo, order) ==
    IF order = <<>> THEN st
    ELSE Then(TransferAttr(st, g, geo, Head(order)),
              LAMBDA s1 : transfer_references(s1, g, geo, Tail(order)))

RECURSIVE add_alias_target(_, _, _, _, _)
RECURSIVE promote_to_alias_target(_, _, _, _)
RECURSIVE Redirect(_, _, _, _, _, _)

\* for alias in aliases: alias.remove_alias_target(old); alias.add_alias_target(new)
Redirect(st, als, old, new, order, fuel) ==
    IF als = <<>> THEN st
    ELSE Then(Then(remove_alias_target(st, Head(als), old),
                   LAMBDA s1 : add_alias_target(s1, Head(als), new, order, fuel)),
              LAMBDA s2 : Redirect(s2, Tail(als), old, new, order, fuel))

\* add_alias_target without the assertion that the target is no alias
add_alias_target_unasserted(st, g, target, order, fuel) ==
    IF fuel = 0 THEN Raise(st, "RecursionError")
    ELSE IF target = g THEN Raise(st, "CircularReference")
    ELSE IF target \in st.alias_targets[g] THEN st
    ELSE IF aliases(st, g) # {} THEN
        IF target \in aliases(st, g)
        THEN promote_to_alias_target(st, target, order, fuel - 1)
        ELSE Then(Redirect(st, ByName(st, aliases(st, g)), g, target, order, fuel - 1),
                  LAMBDA s1 : add_alias_target(s1, g, target, order, fuel - 1))
    ELSE Then(IF st.alias_targets[g] = {}
              THEN transfer_references(st, g, target, order)
              ELSE st,
              LAMBDA s1 : [s1 EXCEPT !.alias_targets[g] = @ \cup {target}])

\* add_alias_target without the call on self after its aliases were redirected
add_alias_target_aliases_only(st, g, target, order, fuel) ==
    IF fuel = 0 THEN Raise(st, "RecursionError")
    ELSE IF target = g THEN Raise(st, "CircularReference")
    ELSE IF target \in st.alias_targets[g] THEN st
    ELSE IF aliases(st, g) # {} THEN
        IF target \in aliases(st, g)
        THEN promote_to_alias_target(st, target, order, fuel - 1)
        ELSE Redirect(st, ByName(st, aliases(st, g)), g, target, order, fuel - 1)
    ELSE IF st.alias_targets[target] # {} THEN Raise(st, "AssertionError")
    ELSE Then(IF st.alias_targets[g] = {}
              THEN transfer_references(st, g, target, order)
              ELSE st,
              LAMBDA s1 : [s1 EXCEPT !.alias_targets[g] = @ \cup {target}])

\* add_alias_target without the refusal of self as target
add_alias_target_of_self(st, g, target, order, fuel) ==
    IF fuel = 0 THEN Raise(st, "RecursionError")
    ELSE IF target \in st.alias_targets[g] THEN st
    ELSE IF aliases(st, g) # {} THEN
        IF target \in aliases(st, g)
        THEN promote_to_alias_target(st, target, order, fuel - 1)
        ELSE Then(Redirect(st, ByName(st, aliases(st, g)), g, target, order, fuel - 1),
                  LAMBDA s1 : add_alias_target(s1, g, target, order, fuel - 1))
    ELSE IF st.alias_targets[target] # {} THEN Raise(st, "AssertionError")
    ELSE Then(IF st.alias_targets[g] = {}
              THEN transfer_references(st, g, target, order)
              ELSE st,
              LAMBDA s1 : [s1 EXCEPT !.alias_targets[g] = @ \cup {target}])

\* add_alias_target with the target list overwritten, not appended to
add_alias_target_replacing(st, g, target, order, fuel) ==
    IF fuel = 0 THEN Raise(st, "RecursionError")
    ELSE IF target = g THEN Raise(st, "CircularReference")
    ELSE IF target \in st.alias_targets[g] THEN st
    ELSE IF aliases(st, g) # {} THEN
        IF target \in aliases(st, g)
        THEN promote_to_alias_target(st, target, order, fuel - 1)
        ELSE Then(Redirect(st, ByName(st, aliases(st, g)), g, target, order, fuel - 1),
                  LAMBDA s1 : add_alias_target(s1, g, target, order, fuel - 1))
    ELSE IF st.alias_targets[target] # {} THEN Raise(st, "AssertionError")
    ELSE Then(IF st.alias_targets[g] = {}
              THEN transfer_references(st, g, target, order)
              ELSE st,
              LAMBDA s1 : [s1 EXCEPT !.alias_targets[g] = {target}])

add_alias_target(st, g, target, order, fuel) ==
    IF fuel = 0 THEN Raise(st, "RecursionError")
    ELSE IF target = g THEN Raise(st, "CircularReference")
    ELSE IF target \in st.alias_targets[g] THEN st
    ELSE IF aliases(st, g) # {} THEN
        IF target \in aliases(st, g)
        THEN promote_to_alias_target(st, target, order, fuel - 1)
        ELSE Then(Redirect(st, ByName(st, aliases(st, g)), g, target, order, fuel - 1),
                  LAMBDA s1 : add_alias_target(s1, g, target, order, fuel - 1))
    ELSE IF st.alias_targets[target] # {} THEN Raise(st, "AssertionError")
    ELSE Then(IF st.alias_targets[g] = {}
              THEN transfer_references(st, g, target, order)
              ELSE st,
              LAMBDA s1 : [s1 EXCEPT !.alias_targets[g] = @ \cup {target}])

\* at is the one target of the alias g
PromoteOver(st, g, at, order, fuel) ==
    IF st.alias_targets[at] # {} THEN Raise(st, "AssertionError")
    ELSE Then(Then([st EXCEPT !.alias_targets[g] = {}],
                   LAMBDA s1 : Redirect(s1, ByName(s1, aliases(s1, at)), at, g,
                                        order, fuel - 1)),
              LAMBDA s2 : add_alias_target(s2, at, g, order, fuel - 1))

\* promote_to_alias_target without the refusal of an alias of several geos
promote_to_alias_target_of_any(st, g, order, fuel) ==
    IF fuel = 0 THEN Raise(st, "RecursionError")
    ELSE IF st.alias_targets[g] = {} THEN st
    ELSE PromoteOver(st, g, CHOOSE t \in st.alias_targets[g] : TRUE, order, fuel)

promote_to_alias_target(st, g, order, fuel) ==
    IF fuel = 0 THEN Raise(st, "RecursionError")
    ELSE IF st.alias_targets[g] = {} THEN st
    ELSE IF Cardinality(st.alias_targets[g]) > 1 THEN Raise(st, "ValueError")
    ELSE PromoteOver(st, g, CHOOSE t \in st.alias_targets[g] : TRUE, order, fuel)

\* for alias_target in added_targets: self.add_alias_target(alias_target)
RECURSIVE AddTargets(_, _, _, _)
AddTargets(st, g, added, order) ==
    IF added = <<>> THEN st
    ELSE Then(add_alias_target(st, g, Head(added), order, RecursionLimit),
              LAMBDA s1 : AddTargets(s1, g, Tail(added), order))

\* for alias in added_aliases: alias.add_alias_target(self)
RECURSIVE AddAliases(_, _, _, _)
AddAliases(st, g, added, order) ==
    IF added = <<>> THEN st
    ELSE Then(add_alias_target(st, Head(added), g, order, RecursionLimit),
              LAMBDA s1 : AddAliases(s1, g, Tail(added), order))

\* the sequences that enumerate the set S: the orders a Python set may iterate in
Orders(S) ==
    {q \in [1..Cardinality(S) -> S] : \A i, j \in 1..Cardinality(S) : i # j => q[i] # q[j]}

Range(q) == {q[i] : i \in 1..Len(q)}

\* alias_targets setter; added is new_targets - current_targets in iteration order
set_alias_targets(st, g, new, added, order) ==
    Then([st EXCEPT !.alias_targets[g] = @ \cap new],
         LAMBDA s1 : AddTargets(s1, g, added, order))

\* aliases setter; added is new_aliases - current_aliases in iteration order
set_aliases(st, g, new, added, order) ==
    Then([st EXCEPT !.alias_targets =
              [a \in Geos |-> IF a \in aliases(st, g) \ new
                              THEN st.alias_targets[a] \ {g}
                              ELSE st.alias_targets[a]]],
         LAMBDA s1 : AddAliases(s1, g, added, order))

-----------------------------------------------------------------------------
(* Geo.__init__ and the registration of the new geo *)

\* a geo object stays reachable when another object refers to it
Referenced(st, g) ==
    \/ \E a \in Geos \ {g} : g \in st.alias_targets[a]
    \/ \E e \in st.parents : e[1] = g \/ e[2] = g
    \/ st.data[g] # NoData
    \/ st.levels[g] # {}

\* the fields of an object that was never constructed
Blank(st, g) ==
    [st EXCEPT !.name[g] = None, !.abbrev[g] = None, !.qualifier[g] = None,
               !.path_parent[g] = NoGeo, !.human_id[g] = None,
               !.alias_targets[g] = {}]

\* the assignments of __init__ after the alias arguments: human_id, parents,
\* children, data (None unless given) and one GeoLevel per level given; a
\* GeoLevel of a (geo, level) pair that exists is refused by the registry
InitReferences(st, g, args) ==
    Then([st EXCEPT
            !.human_id[g] = KeyOf(st, st.name[g], st.abbrev[g], st.qualifier[g],
                                  st.path_parent[g]),
            !.parents = {e \in @ : e[1] # g /\ e[2] # g}
                            \cup {<<g, p>> : p \in args.parents}
                            \cup {<<c, g>> : c \in args.children},
            !.data[g] = IF args.data THEN g ELSE NoData],
         LAMBDA s1 :
            IF \E l \in s1.levels[g] : l[1] \in args.levels
            THEN Raise(s1, "KeyRegistered")
            ELSE [s1 EXCEPT !.levels[g] = @ \cup {<<lv, g>> : lv \in args.levels}])

\* args: name, abbrev, qualifier, path_parent, alias_targets and aliases (each
\* a sequence in iteration order), parents, children, data (given or not),
\* levels (the level names given)
\* Geo.__init__ with the check of the two alias arguments left out
Geo_init_unchecked(st, g, args, order) ==
    Then(Then(Then([st EXCEPT !.name[g] = args.name,
                              !.abbrev[g] = args.abbrev,
                              !.qualifier[g] = args.qualifier,
                              !.path_parent[g] = args.path_parent],
                   LAMBDA s0 : set_alias_targets(s0, g, Range(args.alias_targets),
                                                 args.alias_targets, order)),
              LAMBDA s1 : set_aliases(s1, g, Range(args.aliases),
                                      args.aliases, order)),
         LAMBDA s2 : InitReferences(s2, g, args))

Geo_init(st, g, args, order) ==
    Then(Then(Then(Then([st EXCEPT !.name[g] = args.name,
                                   !.abbrev[g] = args.abbrev,
                                   !.qualifier[g] = args.qualifier,
                                   !.path_parent[g] = args.path_parent],
                        LAMBDA sa : IF args.alias_targets # <<>> /\ args.aliases # <<>>
                                    THEN Raise(sa, "ValueError") ELSE sa),
                   LAMBDA s0 : set_alias_targets(s0, g, Range(args.alias_targets),
                                                 args.alias_targets, order)),
              LAMBDA s1 : set_aliases(s1, g, Range(args.aliases),
                                      args.aliases, order)),
         LAMBDA s2 : InitReferences(s2, g, args))

\* what is left of a constructor call that raised
Abandon(st, g) ==
    IF Referenced(st, g) THEN [st EXCEPT !.live = @ \cup {g}] ELSE Blank(st, g)

\* the class call: the key derived from the arguments must be free, then
\* __init__ runs and the instance is registered under its key
construct(st, g, args, order) ==
    IF KeyRegistered(st, KeyOf(st, args.name, args.abbrev, args.qualifier,
                               args.path_parent))
    THEN Raise(st, "KeyRegistered")
    ELSE CHOOSE r \in
            {IF Ok(s) THEN [s EXCEPT !.live = @ \cup {g},
                                     !.registry = @ \cup {<<s.human_id[g], g>>}]
                      ELSE Abandon(s, g) : s \in {Geo_init(st, g, args, order)}} : TRUE

-----------------------------------------------------------------------------
(* The key specifications: constructions and assignments to the attributes
   that determine the key. *)

\* the handle of the next Geo object
Fresh == CHOOSE g \in Geos \ live : \A h \in Geos \ live : g <= h

ATTR_ORDER == <<PARENTS, CHILDREN, DATA, LEVELS>>

PlainArgs(nm, ab, ql, pp) ==
    [name |-> nm, abbrev |-> ab, qualifier |-> ql, path_parent |-> pp,
     alias_targets |-> <<>>, aliases |-> <<>>, parents |-> {}, children |-> {},
     data |-> FALSE, levels |-> {}]

\* keys longer than this are not followed
MaxKeyLen == 12
\* assignments made to constructed geos in one behaviour
MaxAssign == 2

KeysBounded(st) == \A g \in Geos : st.human_id[g] = None \/ Len(st.human_id[g]) <= MaxKeyLen

GeoNames == {S_US, S_Austin}
GeoAbbrevs == {None, S_TX}
GeoQualifiers == {None, <<"x">>}
ForcedKeys == {<<"u", "s">>, <<"u", "s", "/", "t", "x">>, <<"z">>}

ConstructGeo ==
    /\ live # Geos
    /\ \E nm \in GeoNames, ab \in GeoAbbrevs, pp \in live \cup {NoGeo},
          g \in {Fresh}, st0 \in {Graph} :
         \E st \in {construct(st0, g, PlainArgs(nm, ab, None, pp), ATTR_ORDER)} :
            /\ KeysBounded(st)
            /\ Commit(st, 0)

SetName ==
    /\ budget > 0
    /\ \E g \in live, val \in GeoNames, st0 \in {Graph} :
        \E st \in {set_name(st0, g, val)} :
           /\ KeysBounded(st)
           /\ Commit(st, 1)

SetAbbrev ==
    /\ budget > 0
    /\ \E g \in live, val \in GeoAbbrevs, st0 \in {Graph} :
        \E st \in {set_abbrev(st0, g, val)} :
           /\ KeysBounded(st)
           /\ Commit(st, 1)

SetQualifier ==
    /\ budget > 0
    /\ \E g \in live, val \in GeoQualifiers, st0 \in {Graph} :
        \E st \in {set_qualifier(st0, g, val)} :
           /\ KeysBounded(st)
           /\ Commit(st, 1)

SetPathParent ==
    /\ budget > 0
    /\ \E g \in live, val \in live \cup {NoGeo}, st0 \in {Graph} :
        \E st \in {set_path_parent(st0, g, val)} :
           /\ KeysBounded(st)
           /\ Commit(st, 1)

SetHumanId ==
    /\ budget > 0
    /\ \E g \in live, val \in ForcedKeys, st0 \in {Graph} :
        \E st \in {set_human_id(st0, g, val, RecursionLimit)} :
           /\ KeysBounded(st)
           /\ Commit(st, 1)

InitKey == kin = None /\ kout = None /\ Start(EmptyGraph, MaxAssign)

NextKey == ConstructGeo \/ SetName \/ SetAbbrev \/ SetQualifier \/ SetPathParent

SpecKey == InitKey /\ [][NextKey]_vars

NextKeyForced == NextKey \/ SetHumanId

SpecKeyForced == InitKey /\ [][NextKeyForced]_vars

-----------------------------------------------------------------------------
(* The alias specification: constructions with alias, parent, data and level
   arguments, and the alias operations. *)

\* geos in a list assigned to alias_targets or aliases
MaxAssigned == 1

\* the name given to the geo of handle g
AliasName(g) == <<UpperCase[g]>>

\* the orders the attributes dict of transfer_references may iterate in
AttrOrders == {ATTR_ORDER, <<LEVELS, DATA, CHILDREN, PARENTS>>}

\* the attribute orders to follow for a loop over added: one when it is empty
OrdersFor(added) == IF Len(added) = 0 THEN {ATTR_ORDER} ELSE AttrOrders

\* lists of at most one geo
Lists(S) == {<<>>} \cup {<<x>> : x \in S}

LevelNames == {"place"}

\* the sets of geos a list assigned to alias_targets or aliases may hold
Assignable == {S \in SUBSET live : Cardinality(S) <= MaxAssigned}

AliasArgs(g, tg, al, ps, dt, lv) ==
    [name |-> AliasName(g), abbrev |-> None, qualifier |-> None,
     path_parent |-> NoGeo, alias_targets |-> tg, aliases |-> al,
     parents |-> ps, children |-> {}, data |-> dt, levels |-> lv]

ConstructAlias ==
    /\ live # Geos
    /\ \E tg \in Lists(live), al \in Lists(live), p \in Lists(live),
          dt \in BOOLEAN, lv \in SUBSET LevelNames, order \in AttrOrders,
          g \in {Fresh}, st0 \in {Graph} :
         \E st \in {construct(st0, g, AliasArgs(g, tg, al, Range(p), dt, lv), order)} :
            Commit(st, 0)

AddAliasTarget ==
    /\ \E g \in live, target \in live, order \in AttrOrders, st0 \in {Graph} :
         \E st \in {add_alias_target(st0, g, target, order, RecursionLimit)} :
            Commit(st, 0)

RemoveAliasTarget ==
    /\ \E g \in live, target \in live, st0 \in {Graph} :
         \E st \in {remove_alias_target(st0, g, target)} :
            Commit(st, 0)

PromoteToAliasTarget ==
    /\ \E g \in live, order \in AttrOrders, st0 \in {Graph} :
         \E st \in {promote_to_alias_target(st0, g, order, RecursionLimit)} :
            Commit(st, 0)

SetAliasTargets ==
    \E g \in live, new \in Assignable, st0 \in {Graph} :
       \E added \in Orders(new \ alias_targets[g]) :
          \E order \in OrdersFor(added) :
             \E st \in {set_alias_targets(st0, g, new, added, order)} :
                Commit(st, 0)

SetAliases ==
    \E g \in live, new \in Assignable, st0 \in {Graph} :
       \E added \in Orders(new \ aliases(st0, g)) :
          \E order \in OrdersFor(added) :
             \E st \in {set_aliases(st0, g, new, added, order)} :
                Commit(st, 0)

InitAlias == kin = None /\ kout = None /\ Start(EmptyGraph, 0)

NextAlias ==
    \/ ConstructAlias
    \/ AddAliasTarget
    \/ RemoveAliasTarget
    \/ PromoteToAliasTarget
    \/ SetAliasTargets
    \/ SetAliases

SpecAlias == InitAlias /\ [][NextAlias]_vars

-----------------------------------------------------------------------------
(* The pure-function specification: Init draws the arguments, Derive applies
   create_key to them. *)

KeyNames == {S_US, S_TX, S_Austin, S_AcB, S_AsB, S_A_B}
KeyAbbrevs == {None, S_TX, S_US}
KeyQualifiers == {None, S_cdp, S_A_B}
KeyPaths == {None, <<"u", "s">>, <<"u", "s", "/", "t", "x">>}

InitDerive ==
    /\ kin \in [name : KeyNames, abbrev : KeyAbbrevs,
                qualifier : KeyQualifiers, path : KeyPaths]
    /\ kout = None
    /\ Start(EmptyGraph, 0)

Derive ==
    /\ kout = None
    /\ kout' = create_key(kin.name, kin.abbrev, kin.qualifier, kin.path)
    /\ UNCHANGED <<kin, geoVars>>

NextDerive == Derive

SpecDerive == InitDerive /\ [][NextDerive]_vars

-----------------------------------------------------------------------------
(* Values of the graph that the properties speak of *)

Attrs == {PARENTS, CHILDREN, DATA, LEVELS}

\* geo g holds nothing in attribute attr
Empty(st, g, attr) ==
    CASE attr = PARENTS -> parents_of(st, g) = {}
      [] attr = CHILDREN -> children_of(st, g) = {}
      [] attr = DATA -> st.data[g] = NoData
      [] attr = LEVELS -> st.levels[g] = {}

\* attribute attr of g1 in s1 is what attribute attr of g2 is in s2
SameValue(s1, g1, s2, g2, attr) ==
    CASE attr = PARENTS -> parents_of(s1, g1) = parents_of(s2, g2)
      [] attr = CHILDREN -> children_of(s1, g1) = children_of(s2, g2)
      [] attr = DATA -> s1.data[g1] = s2.data[g2]
      [] attr = LEVELS -> s1.levels[g1] = s2.levels[g2]

References(st, g) == <<parents_of(st, g), children_of(st, g), st.data[g], st.levels[g]>>

\* the transitive path-descendants of g
RECURSIVE Below(_, _, _)
Below(st, S, n) ==
    IF n = 0 THEN S
    ELSE Below(st, S \cup {c \in Geos : st.path_parent[c] \in S}, n - 1)

path_descendants(st, g) == Below(st, path_children(st, g), NGeos)

\* the slash-join of the transformed nametags along the path-parent chain of
\* g, None when the chain has no root
RECURSIVE ChainKey(_, _)
ChainKey(g, fuel) ==
    IF path_parent[g] = NoGeo
    THEN TransformNametag(Nametag(name[g], abbrev[g], qualifier[g]))
    ELSE IF fuel = 0 THEN None
    ELSE LET up == ChainKey(path_parent[g], fuel - 1)
         IN IF up = None THEN None
            ELSE up \o PATH_DELIMITER
                    \o TransformNametag(Nametag(name[g], abbrev[g], qualifier[g]))

-----------------------------------------------------------------------------
(* Properties *)

\* C1: in every reachable state no geo has both a non-empty alias-target set
\* and a non-empty alias set.
AliasExclusive ==
    \A g \in Geos : alias_targets[g] # {} => aliases(Graph, g) = {}

\* a target B with an alias A is made an alias of C, and A is redirected to C
AliasExclusiveWitness ==
    \E A \in live, B \in live, C \in live, order \in AttrOrders :
        /\ alias_targets[A] = {B}
        /\ C \notin {A, B}
        /\ \E st \in {add_alias_target(Graph, B, C, order, RecursionLimit)} :
              /\ Ok(st)
              /\ st.alias_targets[A] = {C}
              /\ st.alias_targets[B] = {C}
              /\ aliases(st, B) = {}

\* C2 as stated: in every reachable state each geo has at most one alias
\* target.
AtMostOneTarget ==
    \A g \in Geos : Cardinality(alias_targets[g]) <= 1

\* C2 amended: a geo may have several alias targets.  A call of
\* add_alias_target(target) that returns leaves the geo with the targets it
\* had and target; an assignment to alias_targets that returns leaves it with
\* exactly the geos assigned.
TargetsAccumulate ==
    /\ \A g \in live, target \in live, order \in AttrOrders :
          \A st \in {add_alias_target(Graph, g, target, order, RecursionLimit)} :
             Ok(st) => st.alias_targets[g] = alias_targets[g] \cup {target}
    /\ \A g \in live, new \in SUBSET live :
          \A added \in Orders(new \ alias_targets[g]) :
             \A order \in OrdersFor(added) :
                \A st \in {set_alias_targets(Graph, g, new, added, order)} :
                   Ok(st) => st.alias_targets[g] = new

\* an alias of one geo is given a second alias target
TargetsAccumulateWitness ==
    \E g \in live, target \in live, order \in AttrOrders :
        /\ alias_targets[g] # {}
        /\ target \notin alias_targets[g]
        /\ \E st \in {add_alias_target(Graph, g, target, order, RecursionLimit)} :
              /\ Ok(st)
              /\ Cardinality(st.alias_targets[g]) = 2

\* C3: no two live geos share a human_id, and the registry maps each key to
\* exactly the one geo whose current human_id is that key.
KeysUniqueAndRegistered ==
    /\ \A g \in live, h \in live : g # h => human_id[g] # human_id[h]
    /\ registry = {<<human_id[g], g>> : g \in live}

\* a geo with a path child is renamed: both are re-keyed, their old keys leave
\* the registry and their new keys enter it
KeysUniqueAndRegisteredWitness ==
    /\ budget > 0
    /\ \E g \in live, c \in live, val \in GeoNames :
          /\ path_parent[c] = g
          /\ \E st \in {set_name(Graph, g, val)} :
                /\ Ok(st)
                /\ KeysBounded(st)
                /\ st.human_id[g] # human_id[g]
                /\ st.human_id[c] # human_id[c]
                /\ st.registry = {<<st.human_id[h], h>> : h \in live}
                /\ ~KeyRegistered(st, human_id[g])
                /\ ~KeyRegistered(st, human_id[c])

\* C4: after any sequence of constructions and name, abbrev, qualifier and
\* path_parent assignments, every geo's human_id is the slash-join of the
\* transformed nametags along its path-parent chain from the root to the geo.
KeyIsSlashJoin ==
    \A g \in live : human_id[g] = ChainKey(g, NGeos)

\* what C5 says of the graph st that an assignment to G left
Cascaded(st, G) ==
    (Ok(st) /\ st.human_id[G] # human_id[G]) =>
        /\ st.human_id[G] =
              create_key(st.name[G], st.abbrev[G], st.qualifier[G],
                         IF st.path_parent[G] = NoGeo THEN None
                         ELSE human_id[st.path_parent[G]])
        /\ \A d \in path_descendants(Graph, G) \ {G} :
              st.human_id[d] = KeyOf(st, st.name[d], st.abbrev[d], st.qualifier[d],
                                     st.path_parent[d])
        /\ \A h \in Geos \ (path_descendants(Graph, G) \cup {G}) :
              /\ st.human_id[h] = human_id[h]
              /\ st.name[h] = name[h]
              /\ st.abbrev[h] = abbrev[h]
              /\ st.qualifier[h] = qualifier[h]
              /\ st.path_parent[h] = path_parent[h]

\* no geo is a path-ancestor of itself
Acyclic == \A g \in Geos : g \notin path_descendants(Graph, g)

\* C5: when an assignment to name, abbrev, qualifier or path_parent of a geo G
\* changes G's key, then on return the key of G and of every transitive
\* path-descendant of G is recomputed with the new prefix, and the key and
\* attributes of every other geo are unchanged.  Stated of the graphs whose
\* path-parent relation is acyclic.
RenameCascades ==
    Acyclic => \A G \in live :
        /\ \A val \in GeoNames : Cascaded(set_name(Graph, G, val), G)
        /\ \A val \in GeoAbbrevs : Cascaded(set_abbrev(Graph, G, val), G)
        /\ \A val \in GeoQualifiers : Cascaded(set_qualifier(Graph, G, val), G)
        /\ \A val \in live \cup {NoGeo} : Cascaded(set_path_parent(Graph, G, val), G)

\* the transformation in the order C6 gives: '.' removed, ', ' and '/' to '-',
\* ' ' to '_', lowercase
ClaimedTransform(tag) ==
    Lower(Replace(Replace(Replace(Replace(tag, <<".">>, <<>>),
                                  <<",", " ">>, <<"-">>),
                          <<"/">>, <<"-">>),
                  <<" ">>, <<"_">>))

\* C6: the key is the nametag with every '.' removed, every ', ' and '/'
\* replaced by '-', every ' ' replaced by '_', lowercased, behind the path
\* parent's key and '/' when there is a path parent.
DerivedAsClaimed ==
    kout # None =>
        kout = (IF kin.path # None THEN kin.path \o PATH_DELIMITER ELSE <<>>)
                   \o ClaimedTransform(Nametag(kin.name, kin.abbrev, kin.qualifier))

\* C7: when A.add_alias_target(B) on a non-alias A without aliases starts a
\* transfer in which B holds a value for an attribute A holds, it raises
\* AttributeConflict, adds no edge from A to B, and leaves the parents,
\* children, data and levels of A and of B as they were.
MergeConflictAtomic ==
    \A A \in live, B \in live, order \in AttrOrders :
        (/\ A # B
         /\ alias_targets[A] = {}
         /\ aliases(Graph, A) = {}
         /\ alias_targets[B] = {}
         /\ \E attr \in Attrs : ~Empty(Graph, A, attr) /\ ~Empty(Graph, B, attr))
        => \A st \in {add_alias_target(Graph, A, B, order, RecursionLimit)} :
              /\ st.err = "AttributeConflict"
              /\ B \notin st.alias_targets[A]
              /\ References(st, A) = References(Graph, A)
              /\ References(st, B) = References(Graph, B)

\* C8: when a non-alias A without aliases is made an alias of a B that is
\* empty of the attributes A holds, then B's value of every attribute A held
\* is A's former one, A's parents, children, data and levels are empty, and
\* the edge from A to B exists.
MergeTransfers ==
    \A A \in live, B \in live, order \in AttrOrders :
        (/\ A # B
         /\ alias_targets[A] = {}
         /\ aliases(Graph, A) = {}
         /\ \A attr \in Attrs : Empty(Graph, A, attr) \/ Empty(Graph, B, attr))
        => \A st \in {add_alias_target(Graph, A, B, order, RecursionLimit)} :
              Ok(st) =>
                 /\ B \in st.alias_targets[A]
                 /\ \A attr \in Attrs :
                       /\ Empty(st, A, attr)
                       /\ ~Empty(Graph, A, attr) => SameValue(st, B, Graph, A, attr)

\* C9: for an alias A whose one target is B, when A.promote_to_alias_target()
\* returns, A has no alias targets, B's only target is A, every other geo
\* that was an alias of B is an alias of A and not of B, and what B held of
\* parents, children, data and levels is A's and no longer B's.
PromotionInverts ==
    \A A \in live, B \in live, order \in AttrOrders :
        alias_targets[A] = {B}
        => \A st \in {promote_to_alias_target(Graph, A, order, RecursionLimit)} :
              Ok(st) =>
                 /\ st.alias_targets[A] = {}
                 /\ st.alias_targets[B] = {A}
                 /\ \A C \in aliases(Graph, B) \ {A} :
                       A \in st.alias_targets[C] /\ B \notin st.alias_targets[C]
                 /\ \A attr \in Attrs :
                       ~Empty(Graph, B, attr) =>
                          SameValue(st, A, Graph, B, attr) /\ Empty(st, B, attr)

ClaimedErrors == {"CircularReference", "AttributeConflict", "ValueError", "AssertionError"}

\* the graph st that a failed call left is the graph it found
Untouched(st) ==
    (st.err \in ClaimedErrors) =>
        /\ st.alias_targets = alias_targets
        /\ st.parents = parents
        /\ st.data = data
        /\ st.levels = levels

\* C10: when add_alias_target, promote_to_alias_target or an assignment to
\* alias_targets or aliases ends in CircularReference, AttributeConflict,
\* ValueError or a failed assertion, every alias edge and every geo's
\* parents, children, data and levels are what they were before the call.
FailedCallsChangeNothing ==
    \A g \in live, order \in AttrOrders :
        /\ \A target \in live :
              Untouched(add_alias_target(Graph, g, target, order, RecursionLimit))
        /\ Untouched(promote_to_alias_target(Graph, g, order, RecursionLimit))
        /\ \A new \in Assignable :
              /\ \A added \in Orders(new \ alias_targets[g]) :
                    Untouched(set_alias_targets(Graph, g, new, added, order))
              /\ \A added \in Orders(new \ aliases(Graph, g)) :
                    Untouched(set_aliases(Graph, g, new, added, order))

\* C11: after any sequence of constructions and path_parent assignments no geo
\* is its own path-parent or a path-ancestor of itself.
PathAcyclic ==
    \A g \in live : g \notin path_descendants(Graph, g)

\* the call that left the graph st ran out of call stack
Overran(st) == st.err = "RecursionError"

\* C12: from every reachable state, the rename cascade of every name, abbrev,
\* qualifier, path_parent and human_id assignment finishes within the call
\* stack, after finitely many recursive steps.
CascadesTerminate ==
    \A g \in live :
        /\ \A val \in GeoNames : ~Overran(set_name(Graph, g, val))
        /\ \A val \in GeoAbbrevs : ~Overran(set_abbrev(Graph, g, val))
        /\ \A val \in GeoQualifiers : ~Overran(set_qualifier(Graph, g, val))
        /\ \A val \in live \cup {NoGeo} : ~Overran(set_path_parent(Graph, g, val))
        /\ \A val \in ForcedKeys : ~Overran(set_human_id(Graph, g, val, RecursionLimit))

-----------------------------------------------------------------------------
(* Text matching: Geo.find_matches and what it calls *)

S_Texas == <<"T", "e", "x", "a", "s">>
S_texas == <<"t", "e", "x", "a", "s">>
S_Au == <<"A", "u">>
S_AustinTX == <<"A", "u", "s", "t", "i", "n", ",", " ", "T", "X">>
S_AustinTexas == <<"A", "u", "s", "t", "i", "n", ",", " ", "T", "e", "x", "a", "s">>
S_AustinTexasTX == S_AustinTexas \o <<",", " ", "T", "X">>
S_Commas == <<" ", ",", " ">>

\* str.split(sep) for a one-character sep
RECURSIVE Split(_, _)
Split(s, sep) ==
    IF \A i \in 1..Len(s) : s[i] # sep THEN <<s>>
    ELSE LET i == CHOOSE k \in 1..Len(s) : s[k] = sep /\ \A j \in 1..(k - 1) : s[j] # sep
         IN <<SubSeq(s, 1, i - 1)>> \o Split(SubSeq(s, i + 1, Len(s)), sep)

\* str.strip() where the only whitespace is ' '
RECURSIVE Strip(_)
Strip(s) ==
    IF s = <<>> THEN s
    ELSE IF s[1] = " " THEN Strip(Tail(s))
    ELSE IF s[Len(s)] = " " THEN Strip(SubSeq(s, 1, Len(s) - 1))
    ELSE s

\* reversed(q)
Reverse(q) == [i \in 1..Len(q) |-> q[Len(q) + 1 - i]]

\* infer_path_component_names without its filter on empty components
infer_path_component_names_unfiltered(geo_text) ==
    LET parts == Reverse(Split(geo_text, ","))
    IN [i \in 1..Len(parts) |-> Strip(parts[i])]

\* the stripped, non-empty components of geo_text, rightmost first
infer_path_component_names(geo_text) ==
    LET parts == Reverse(Split(geo_text, ","))
    IN SelectSeq([i \in 1..Len(parts) |-> Strip(parts[i])], LAMBDA c : c # <<>>)

\* ', '.join((a, b))
JoinComma(a, b) == a \o <<",", " ">> \o b

StartsWith(s, p) == Len(p) <= Len(s) /\ SubSeq(s, 1, Len(p)) = p
EndsWith(s, p) == Len(p) <= Len(s) /\ SubSeq(s, Len(s) - Len(p) + 1, Len(s)) = p
Contains(s, p) == \E i \in 0..(Len(s) - Len(p)) : SubSeq(s, i + 1, i + Len(p)) = p

\* the collation of LIKE: case-insensitive in some databases, not in others
Fold(s, ci) == IF ci THEN Lower(s) ELSE s

\* column LIKE 'text%', LIKE '% text%', LIKE 'text', LIKE '%text' and
\* column.contains(text); a NULL column matches nothing
LikePrefix(col, text, ci) == col # None /\ StartsWith(Fold(col, ci), Fold(text, ci))
LikeWord(col, text, ci) == col # None /\ Contains(Fold(col, ci), <<" ">> \o Fold(text, ci))
LikeWhole(col, text, ci) == col # None /\ Fold(col, ci) = Fold(text, ci)
LikeSuffix(col, text, ci) == col # None /\ EndsWith(Fold(col, ci), Fold(text, ci))
LikeContains(col, text, ci) == col # None /\ Contains(Fold(col, ci), Fold(text, ci))

BEST == "BEST"
EXACT == "EXACT"
CONTAINS == "CONTAINS"
STARTS_WITH == "STARTS_WITH"
ENDS_WITH == "ENDS_WITH"
MatchTypes == {BEST, EXACT, CONTAINS, STARTS_WITH, ENDS_WITH}


\* GeoData.total_pop of the data object d: the data of the geo of handle g is
\* constructed with the population g, so populations are distinct
total_pop(d) == d

\* key=lambda g: g.data.total_pop if g.data else -1
PopKey(st, g) == IF st.data[g] # NoData THEN total_pop(st.data[g]) ELSE -1

\* parent.alias_targets[0]: the most populous target; targets of equal key
\* stay in list order, which is not kept: the geos matched over are aliases
\* of one target at most
first_alias_target(st, g) ==
    CHOOSE t \in st.alias_targets[g] :
        \A u \in st.alias_targets[g] : PopKey(st, t) >= PopKey(st, u)

\* the orders in which the database may return all geos under
\* outerjoin(data).order_by(desc(total_pop)): descending population, the geos
\* without data all first or all last, in any order among themselves
QueryOrders(st) ==
    {q \in Orders(st.live) :
        /\ \A i, j \in 1..Len(q) :
              (i < j /\ st.data[q[i]] # NoData /\ st.data[q[j]] # NoData)
                  => total_pop(st.data[q[i]]) > total_pop(st.data[q[j]])
        /\ \/ \A i, j \in 1..Len(q) :
                 (st.data[q[i]] = NoData /\ st.data[q[j]] # NoData) => i < j
           \/ \A i, j \in 1..Len(q) :
                 (st.data[q[i]] = NoData /\ st.data[q[j]] # NoData) => i > j}

\* the filter clause without the abbreviation-only case of BEST
MatchesByNameToo(st, g, match_string, match_type, parent, ci) ==
    CASE match_type = BEST ->
           \/ LikePrefix(st.name[g], match_string, ci)
           \/ LikeWord(st.name[g], match_string, ci)
           \/ LikePrefix(st.abbrev[g], match_string, ci)
      [] match_type = EXACT ->
           \/ LikeWhole(st.name[g], match_string, ci)
           \/ LikeWhole(st.abbrev[g], match_string, ci)
      [] match_type = CONTAINS ->
           \/ LikeContains(st.name[g], match_string, ci)
           \/ LikeContains(st.abbrev[g], match_string, ci)
      [] match_type = STARTS_WITH ->
           \/ LikePrefix(st.name[g], match_string, ci)
           \/ LikePrefix(st.abbrev[g], match_string, ci)
      [] match_type = ENDS_WITH ->
           \/ LikeSuffix(st.name[g], match_string, ci)
           \/ LikeSuffix(st.abbrev[g], match_string, ci)
      [] OTHER -> FALSE

\* the filter clause of find_component_matches on the row g
Matches(st, g, match_string, match_type, parent, ci) ==
    CASE match_type = BEST ->
           IF Len(match_string) < 3 /\ parent = NoGeo
           THEN LikePrefix(st.abbrev[g], match_string, ci)
           ELSE \/ LikePrefix(st.name[g], match_string, ci)
                \/ LikeWord(st.name[g], match_string, ci)
                \/ LikePrefix(st.abbrev[g], match_string, ci)
      [] match_type = EXACT ->
           \/ LikeWhole(st.name[g], match_string, ci)
           \/ LikeWhole(st.abbrev[g], match_string, ci)
      [] match_type = CONTAINS ->
           \/ LikeContains(st.name[g], match_string, ci)
           \/ LikeContains(st.abbrev[g], match_string, ci)
      [] match_type = STARTS_WITH ->
           \/ LikePrefix(st.name[g], match_string, ci)
           \/ LikePrefix(st.abbrev[g], match_string, ci)
      [] match_type = ENDS_WITH ->
           \/ LikeSuffix(st.name[g], match_string, ci)
           \/ LikeSuffix(st.abbrev[g], match_string, ci)
      [] OTHER -> FALSE

\* g.name.lower() == match_string or (g.abbrev and g.abbrev.lower() == match_string)
IsExact(st, g, match_string) ==
    \/ Lower(st.name[g]) = match_string
    \/ Truthy(st.abbrev[g]) /\ Lower(st.abbrev[g]) = match_string

\* del m[pos], pos counted from 1
DelAt(m, pos) == SubSeq(m, 1, pos - 1) \o SubSeq(m, pos + 1, Len(m))

\* the loop of elevate_exact_matches over reversed(matches): i counts the
\* visits, the reversed iterator stands at after - i + 1 and ends when that
\* is no position of the list
RECURSIVE ElevateLoop(_, _, _, _, _, _)
ElevateLoop(st, m, i, before, after, match_string) ==
    IF i > before THEN m
    ELSE IF after - i + 1 < 1 \/ after - i + 1 > Len(m) THEN m
    ELSE IF IsExact(st, m[after - i + 1], match_string)
         THEN ElevateLoop(st, DelAt(m, after - i + 1), i + 1, before, after, match_string)
         ELSE ElevateLoop(st, m, i + 1, before, after, match_string)

\* the elevation without the loop that deletes the elevated entries from
\* where they stood
elevate_exact_matches_kept(st, matches, match_string) ==
    SelectSeq(matches, LAMBDA g : IsExact(st, g, Lower(match_string))) \o matches

elevate_exact_matches(st, matches, match_string) ==
    LET text == Lower(match_string)
        exact_matches == SelectSeq(matches, LAMBDA g : IsExact(st, g, text))
        after == Len(exact_matches) + Len(matches)
    IN IF Len(exact_matches) = 0 THEN matches
       ELSE ElevateLoop(st, exact_matches \o matches, 1, Len(matches), after, text)

\* the loop of remove_redundant_aliases over reversed(matches): the reversed
\* iterator stands at idx and ends when that is no position of the list
RECURSIVE PruneLoop(_, _, _, _)
PruneLoop(st, m, idx, match_set) ==
    IF idx < 1 \/ idx > Len(m) THEN m
    ELSE IF st.alias_targets[m[idx]] # {} /\ st.alias_targets[m[idx]] \subseteq match_set
         THEN PruneLoop(st, DelAt(m, Len(m)), idx - 1, match_set)
         ELSE PruneLoop(st, m, idx - 1, match_set)

remove_redundant_aliases(st, matches) ==
    PruneLoop(st, matches, Len(matches), Range(matches))

\* the result of a query: the matches, or the error raised
Found(matches) == [err |-> "ok", matches |-> matches]

\* the query of find_component_matches over the path children of scope, or
\* over all geos when there is no scope, and the elevation of its result
scoped_matches(st, match_string, match_type, scope, elevate, ci, rank) ==
    LET base_query == IF scope # NoGeo THEN path_children(st, scope) ELSE st.live
        matches == SelectSeq(rank, LAMBDA g :
                       g \in base_query
                       /\ Matches(st, g, match_string, match_type, scope, ci))
    IN IF elevate THEN elevate_exact_matches(st, matches, match_string) ELSE matches

\* find_component_matches ahead of the line that redirects an alias parent
find_component_matches_unresolved(st, match_string, match_type, parent, elevate, ci, rank) ==
    IF match_type \notin MatchTypes
    THEN [err |-> "ValueError", matches |-> <<>>]
    ELSE Found(scoped_matches(st, match_string, match_type, parent, elevate, ci, rank))

\* parent.alias_targets[-1]: the last of the sorted targets
last_alias_target(st, g) ==
    CHOOSE t \in st.alias_targets[g] :
        \A u \in st.alias_targets[g] : PopKey(st, t) <= PopKey(st, u)

\* find_component_matches, were the alias parent redirected to the last of
\* its sorted targets
find_component_matches_last(st, match_string, match_type, parent, elevate, ci, rank) ==
    IF match_type \notin MatchTypes
    THEN [err |-> "ValueError", matches |-> <<>>]
    ELSE Found(scoped_matches(st, match_string, match_type,
                              IF parent # NoGeo /\ st.alias_targets[parent] # {}
                              THEN last_alias_target(st, parent) ELSE parent,
                              elevate, ci, rank))

find_component_matches(st, match_string, match_type, parent, elevate, ci, rank) ==
    IF match_type \notin MatchTypes
    THEN [err |-> "ValueError", matches |-> <<>>]
    ELSE Found(scoped_matches(st, match_string, match_type,
                              IF parent # NoGeo /\ st.alias_targets[parent] # {}
                              THEN first_alias_target(st, parent) ELSE parent,
                              elevate, ci, rank))

\* the for loop of find_matches from component i on: the matches of the last
\* component tried, and prior_parent when the loop ends
RECURSIVE Descend(_, _, _, _, _, _, _, _)
Descend(st, path_components, i, parent, prior_parent, match_type, ci, rank) ==
    LET component == path_components[i]
        found == find_component_matches(st, component, match_type, parent,
                                        Len(component) > 1, ci, rank)
    IN IF found.err # "ok" \/ found.matches = <<>>
       THEN [err |-> found.err, matches |-> <<>>, prior_parent |-> prior_parent]
       ELSE IF i = Len(path_components)
       THEN [err |-> "ok", matches |-> found.matches, prior_parent |-> parent]
       ELSE Descend(st, path_components, i + 1, found.matches[1], parent,
                    match_type, ci, rank)

\* find_matches up to the pruning: the matches of the last component tried,
\* or of the retry with the two leftmost components joined
final_matches(st, match_string, match_type, ci, rank) ==
    LET path_components == infer_path_component_names(match_string)
        n == Len(path_components)
        loop == Descend(st, path_components, 1, NoGeo, NoGeo, match_type, ci, rank)
    IN IF n = 0 THEN Found(<<>>)
       ELSE IF loop.err # "ok" THEN [err |-> loop.err, matches |-> <<>>]
       ELSE IF loop.matches = <<>> /\ n > 1
       THEN find_component_matches(st,
                JoinComma(path_components[n], path_components[n - 1]),
                match_type, loop.prior_parent, TRUE, ci, rank)
       ELSE Found(loop.matches)

find_matches(st, match_string, match_type, ci, rank) ==
    LET final == final_matches(st, match_string, match_type, ci, rank)
    IN IF final.err # "ok" THEN final
       ELSE Found(remove_redundant_aliases(st, final.matches))

-----------------------------------------------------------------------------
(* The matching specification: geos are constructed, then one text is
   matched against them. *)

\* name and abbreviation of the geos constructed
MatchPlaces == {<<S_Texas, S_TX>>, <<S_Austin, None>>, <<S_AustinTexas, None>>}

MatchTexts == {<<>>, S_Commas, S_TX, S_Au, S_Texas, S_texas, S_Austin,
               S_AustinTX, S_AustinTexas, S_AustinTexasTX}

\* no text has been matched yet
NotCalled == [err |-> "none", matches |-> <<>>]

MatchArgs(pl, pp, tg, dt) ==
    [name |-> pl[1], abbrev |-> pl[2], qualifier |-> None, path_parent |-> pp,
     alias_targets |-> tg, aliases |-> <<>>, parents |-> {}, children |-> {},
     data |-> dt, levels |-> {}]

ConstructPlace ==
    /\ kout = NotCalled
    /\ live # Geos
    /\ \E pl \in MatchPlaces, pp \in live \cup {NoGeo}, tg \in Lists(live),
          dt \in BOOLEAN, g \in {Fresh}, st0 \in {Graph} :
         \E st \in {construct(st0, g, MatchArgs(pl, pp, tg, dt), ATTR_ORDER)} :
            Commit(st, 0)

\* kin is the call, kout what it returned or raised
FindMatches ==
    /\ kout = NotCalled
    /\ \E text \in MatchTexts, match_type \in MatchTypes, ci \in BOOLEAN,
          rank \in QueryOrders(Graph) :
          /\ kin' = [text |-> text, match_type |-> match_type, ci |-> ci, rank |-> rank]
          /\ kout' = find_matches(Graph, text, match_type, ci, rank)
    /\ UNCHANGED geoVars

InitMatch == kin = None /\ kout = NotCalled /\ Start(EmptyGraph, 0)

NextMatch == ConstructPlace \/ FindMatches

SpecMatch == InitMatch /\ [][NextMatch]_vars

-----------------------------------------------------------------------------
(* Properties of the matching *)

\* a text has been matched and the call returned
Returned == kout.err = "ok"

\* the match list of the last component tried in the call kin
FinalOfCall == final_matches(Graph, kin.text, kin.match_type, kin.ci, kin.rank).matches

\* every alias target of the alias g is in the list m
Redundant(g, m) == alias_targets[g] # {} /\ alias_targets[g] \subseteq Range(m)

\* C13: the list find_matches returns is the final component's match list
\* without exactly the aliases whose every target is in that list, the kept
\* entries in their order.
PrunesRedundantAliases ==
    Returned =>
        kout.matches = SelectSeq(FinalOfCall, LAMBDA g : ~Redundant(g, FinalOfCall))

\* the texts matched as one component: an abbreviation and a name, the name
\* also in another case
ComponentTexts == {S_TX, S_Texas, S_texas}

\* the name or the abbreviation of g is text, case ignored
ExactFor(g, text) ==
    \/ Lower(name[g]) = Lower(text)
    \/ abbrev[g] # None /\ Lower(abbrev[g]) = Lower(text)

\* C14: with elevation on, find_component_matches returns the population-
\* ordered match list with the geos whose name or abbreviation is the text,
\* case ignored, first in their relative order, and the other matches behind
\* them in their relative order, none lost and none twice.
ElevationIsStablePartition ==
    kout = NotCalled =>
        \A text \in ComponentTexts, match_type \in MatchTypes,
           parent \in live \cup {NoGeo}, ci \in BOOLEAN, rank \in QueryOrders(Graph) :
           \A plain \in {find_component_matches(Graph, text, match_type, parent,
                                                FALSE, ci, rank).matches} :
              find_component_matches(Graph, text, match_type, parent, TRUE, ci, rank).matches
                  = SelectSeq(plain, LAMBDA g : ExactFor(g, text))
                       \o SelectSeq(plain, LAMBDA g : ~ExactFor(g, text))

\* "Texas" is matched where a more populous geo matches by prefix or word and
\* stands before the geo named Texas, which the elevation moves to the front
ElevationIsStablePartitionWitness ==
    /\ kout = NotCalled
    /\ \E ci \in BOOLEAN, rank \in QueryOrders(Graph) :
          \E plain \in {find_component_matches(Graph, S_Texas, BEST, NoGeo,
                                               FALSE, ci, rank).matches} :
             \E up \in {find_component_matches(Graph, S_Texas, BEST, NoGeo,
                                               TRUE, ci, rank).matches} :
                /\ Len(plain) = 3
                /\ ~ExactFor(plain[1], S_Texas)
                /\ ExactFor(plain[2], S_Texas)
                /\ up = <<plain[2], plain[1], plain[3]>>

\* the components of the text of the call kin, rightmost first
ComponentsOfCall == infer_path_component_names(kin.text)

\* t is the one geo whose abbreviation starts with TX, t is no alias, and a is
\* a path-child of t named Austin
AustinInTX(t, a) ==
    /\ abbrev[t] = S_TX
    /\ alias_targets[t] = {}
    /\ \A u \in live \ {t} : abbrev[u] = None \/ ~StartsWith(Lower(abbrev[u]), Lower(S_TX))
    /\ path_parent[a] = t
    /\ name[a] = S_Austin

\* C15: with match type BEST, a text of one component shorter than 3
\* characters returns only geos whose abbreviation starts with the text, and
\* find_matches("Austin, TX") where Austin is a path-child of the one geo
\* abbreviated TX returns that Austin first.
ShortCodesByAbbreviation ==
    (Returned /\ kin.match_type = BEST) =>
        /\ (Len(ComponentsOfCall) = 1 /\ Len(ComponentsOfCall[1]) < 3) =>
              \A i \in 1..Len(kout.matches) :
                 /\ abbrev[kout.matches[i]] # None
                 /\ StartsWith(Fold(abbrev[kout.matches[i]], kin.ci),
                               Fold(ComponentsOfCall[1], kin.ci))
        /\ kin.text = S_AustinTX =>
              \A t \in live, a \in live :
                 AustinInTX(t, a) => (kout.matches # <<>> /\ kout.matches[1] = a)

\* "Austin, TX" has been matched over a chain of three geos, a root, the geo
\* abbreviated TX under it and Austin under that, and Austin is returned first
ShortCodesByAbbreviationWitness ==
    /\ Returned
    /\ kin.match_type = BEST
    /\ kin.text = S_AustinTX
    /\ \E r \in live, t \in live, a \in live :
          /\ path_parent[r] = NoGeo
          /\ path_parent[t] = r
          /\ AustinInTX(t, a)
          /\ kout.matches # <<>>
          /\ kout.matches[1] = a

\* the descent from component i of the call kin on, scoped to the path
\* children of parent or, when resolve is set and parent is an alias, of its
\* most populous alias target: whether every component matched, and the
\* match list of the last one
RECURSIVE RefDescend(_, _, _)
RefDescend(i, parent, resolve) ==
    LET scope == IF resolve /\ parent # NoGeo /\ alias_targets[parent] # {}
                 THEN first_alias_target(Graph, parent) ELSE parent
        m == scoped_matches(Graph, ComponentsOfCall[i], kin.match_type, scope,
                            Len(ComponentsOfCall[i]) > 1, kin.ci, kin.rank)
    IN IF m = <<>> THEN [all |-> FALSE, matches |-> <<>>]
       ELSE IF i = Len(ComponentsOfCall) THEN [all |-> TRUE, matches |-> m]
       ELSE RefDescend(i + 1, m[1], resolve)

\* C16 as stated: the components are matched from the rightmost to the
\* leftmost, the first in global scope and each later one among the path
\* children of the top-ranked result before it, and when every component
\* matches the list returned is the match list of the leftmost component.
DescentAsClaimed ==
    (Returned /\ ComponentsOfCall # <<>>) =>
        \A d \in {RefDescend(1, NoGeo, FALSE)} :
           d.all => kout.matches = d.matches

\* C16 amended: a later component is matched among the path children of the
\* top-ranked result before it or, when that result is an alias, of its most
\* populous alias target; when every component matches, the list returned is
\* what remove_redundant_aliases leaves of the leftmost component's match list.
DescentThroughAliasTargets ==
    (Returned /\ ComponentsOfCall # <<>>) =>
        \A d \in {RefDescend(1, NoGeo, TRUE)} :
           d.all => kout.matches = remove_redundant_aliases(Graph, d.matches)

\* a text of two components has been matched, the top-ranked result of the
\* right one is an alias, and the left one matched a path child of its target
DescentThroughAliasTargetsWitness ==
    /\ Returned
    /\ Len(ComponentsOfCall) = 2
    /\ RefDescend(1, NoGeo, TRUE).all
    /\ kout.matches # <<>>
    /\ \E top \in {scoped_matches(Graph, ComponentsOfCall[1], kin.match_type, NoGeo,
                                  Len(ComponentsOfCall[1]) > 1, kin.ci, kin.rank)[1]} :
          /\ alias_targets[top] # {}
          /\ path_parent[kout.matches[1]] = first_alias_target(Graph, top)


\* the parent cursor with which the loop of find_matches reaches component i
\* of the call kin, and whether it reaches it at all
RECURSIVE DescentScope(_)
DescentScope(i) ==
    IF i = 1 THEN [reached |-> TRUE, scope |-> NoGeo]
    ELSE LET p == DescentScope(i - 1)
             m == IF p.reached
                  THEN find_component_matches(Graph, ComponentsOfCall[i - 1], kin.match_type,
                           p.scope, Len(ComponentsOfCall[i - 1]) > 1, kin.ci, kin.rank).matches
                  ELSE <<>>
         IN IF m = <<>> THEN [reached |-> FALSE, scope |-> NoGeo]
            ELSE [reached |-> TRUE, scope |-> m[1]]

\* the descent of the call kin ended with no matches
DescentEmpty ==
    /\ ComponentsOfCall # <<>>
    /\ Descend(Graph, ComponentsOfCall, 1, NoGeo, NoGeo, kin.match_type, kin.ci, kin.rank).matches = <<>>

\* C17: when the descent ends with no matches and the text has more than one
\* component, the list returned is the pruned match list of the two leftmost
\* components joined as "X, Y", scoped to the parent under which the second
\* leftmost component was looked up (no parent when it was the first one
\* processed); with a single component the empty descent is returned as is.
RetryScopedAsClaimed ==
    (Returned /\ DescentEmpty) =>
        \A n \in {Len(ComponentsOfCall)} :
           /\ n = 1 => kout.matches = <<>>
           /\ (n > 1 /\ DescentScope(n - 1).reached) =>
                 kout.matches = remove_redundant_aliases(Graph,
                     find_component_matches(Graph,
                         JoinComma(ComponentsOfCall[n], ComponentsOfCall[n - 1]),
                         kin.match_type, DescentScope(n - 1).scope, TRUE, kin.ci, kin.rank).matches)


\* text is empty or made of commas and whitespace only
IsBlank(text) == \A i \in 1..Len(text) : text[i] \in {" ", ","}

\* no component of text occurs in the name or the abbreviation of a geo,
\* whatever the case of the letters
NamesNothing(text) ==
    \A c \in Range(infer_path_component_names(text)) : \A g \in live :
        /\ ~Contains(Fold(name[g], TRUE), Fold(c, TRUE))
        /\ abbrev[g] # None => ~Contains(Fold(abbrev[g], TRUE), Fold(c, TRUE))

\* C18: a call of find_matches with a supported match type raises nothing,
\* and it returns the empty list when the text is empty, holds only commas
\* and whitespace, or names nothing in the data.
MissesAreNotErrors ==
    kout # NotCalled =>
        /\ kout.err = "ok"
        /\ (IsBlank(kin.text) \/ NamesNothing(kin.text)) => kout.matches = <<>>

\* a text of commas and whitespace has been looked up among geos
BlankTextReached ==
    /\ Returned
    /\ live # {}
    /\ kin.text # <<>>
    /\ IsBlank(kin.text)
    /\ kout.matches = <<>>

\* a text whose components occur in no geo has been looked up among geos
MissesAreNotErrorsWitness ==
    /\ Returned
    /\ live # {}
    /\ ~IsBlank(kin.text)
    /\ NamesNothing(kin.text)
    /\ kout.matches = <<>>


-----------------------------------------------------------------------------
(* GeoLevel: the taxonomy of levels *)

COUNTRY == "country"
SUBDIVISION1 == "subdivision1"
SUBDIVISION2 == "subdivision2"
SUBDIVISION3 == "subdivision3"
COMBINED_AREA == "combined_area"
CORE_AREA == "core_area"
PLACE == "place"
SUBPLACE == "subplace"

\* GeoLevel.DOWN: the levels below each level, as the tuples list them
DOWN ==
    (COUNTRY :> <<SUBDIVISION1>>)
    @@ (SUBDIVISION1 :> <<COMBINED_AREA, CORE_AREA, SUBDIVISION2, PLACE>>)
    @@ (COMBINED_AREA :> <<CORE_AREA, SUBDIVISION2, PLACE>>)
    @@ (CORE_AREA :> <<SUBDIVISION2, PLACE>>)
    @@ (SUBDIVISION2 :> <<SUBDIVISION3, PLACE>>)
    @@ (SUBDIVISION3 :> <<PLACE>>)
    @@ (PLACE :> <<SUBPLACE>>)
    @@ (SUBPLACE :> <<>>)

\* GeoLevel.UP, were subplace listed above country
UP_around ==
    (SUBPLACE :> <<PLACE, SUBDIVISION3, SUBDIVISION2, CORE_AREA,
                   COMBINED_AREA, SUBDIVISION1>>)
    @@ (PLACE :> <<SUBDIVISION2, CORE_AREA, COMBINED_AREA, SUBDIVISION1>>)
    @@ (SUBDIVISION3 :> <<SUBDIVISION2, CORE_AREA, COMBINED_AREA, SUBDIVISION1>>)
    @@ (SUBDIVISION2 :> <<CORE_AREA, COMBINED_AREA, SUBDIVISION1>>)
    @@ (CORE_AREA :> <<COMBINED_AREA, SUBDIVISION1>>)
    @@ (COMBINED_AREA :> <<SUBDIVISION1>>)
    @@ (SUBDIVISION1 :> <<COUNTRY>>)
    @@ (COUNTRY :> <<SUBPLACE>>)

\* GeoLevel.UP: the levels above each level
UP ==
    (SUBPLACE :> <<PLACE, SUBDIVISION3, SUBDIVISION2, CORE_AREA,
                   COMBINED_AREA, SUBDIVISION1>>)
    @@ (PLACE :> <<SUBDIVISION2, CORE_AREA, COMBINED_AREA, SUBDIVISION1>>)
    @@ (SUBDIVISION3 :> <<SUBDIVISION2, CORE_AREA, COMBINED_AREA, SUBDIVISION1>>)
    @@ (SUBDIVISION2 :> <<CORE_AREA, COMBINED_AREA, SUBDIVISION1>>)
    @@ (CORE_AREA :> <<COMBINED_AREA, SUBDIVISION1>>)
    @@ (COMBINED_AREA :> <<SUBDIVISION1>>)
    @@ (SUBDIVISION1 :> <<COUNTRY>>)
    @@ (COUNTRY :> <<>>)

\* the relations a traversal may follow
Relations == [DOWN |-> DOWN, UP |-> UP]

-----------------------------------------------------------------------------
(* Specification of the traversals of the taxonomy: a traversal starts at a
   level and follows one relation, one lookup in its table at a time.       *)

InitTaxonomy ==
    /\ kin \in [relation : DOMAIN Relations, start : DOMAIN DOWN, at : DOMAIN DOWN,
                steps : {0}]
    /\ kin.at = kin.start
    /\ kout = NotCalled
    /\ Start(EmptyGraph, 0)

\* DOWN[level]: on to one of the levels listed below the level reached
StepDown ==
    /\ kin.relation = "DOWN"
    /\ \E lvl \in Range(DOWN[kin.at]) :
          kin' = [kin EXCEPT !.at = lvl, !.steps = @ + 1]
    /\ UNCHANGED <<kout, geoVars>>

\* UP[level]: on to one of the levels listed above the level reached
StepUp ==
    /\ kin.relation = "UP"
    /\ \E lvl \in Range(UP[kin.at]) :
          kin' = [kin EXCEPT !.at = lvl, !.steps = @ + 1]
    /\ UNCHANGED <<kout, geoVars>>

NextTaxonomy == StepDown \/ StepUp

SpecTaxonomy == InitTaxonomy /\ [][NextTaxonomy]_vars

-----------------------------------------------------------------------------
(* Properties of the taxonomy *)

\* the number of DOWN steps of the longest traversal from level
RECURSIVE Height(_)
Height(level) ==
    IF DOWN[level] = <<>> THEN 0
    ELSE CHOOSE h \in {1 + Height(l) : l \in Range(DOWN[level])} :
            \A l \in Range(DOWN[level]) : h >= 1 + Height(l)

TaxonomyDepth == Height(COUNTRY)

\* the levels that at most n UP steps from level reach
RECURSIVE UpWithin(_, _)
UpWithin(level, n) ==
    IF n = 0 THEN {level}
    ELSE UpWithin(level, n - 1)
         \cup UNION {Range(UP[l]) : l \in UpWithin(level, n - 1)}

\* C19: a level that DOWN steps reach from another level has a root above it,
\* and UP steps from it, at most as many as the taxonomy is deep, reach the
\* level the traversal started at.
TaxonomyClosure ==
    (kin.relation = "DOWN" /\ kin.at # kin.start) =>
        /\ UP[kin.at] # <<>>
        /\ kin.start \in UpWithin(kin.at, TaxonomyDepth)


-----------------------------------------------------------------------------
(* GeoLevel: construction and the level and geo setters.  A GeoLevel is held
   in levels[geo] as the pair of its level and the geo it was made for.      *)

\* None where a level is expected
NoLevel == "None"

\* a GeoLevel of geo and level is in the registry of GeoLevel
LevelRegistered(st, geo, level) == \E l \in st.levels[geo] : l[1] = level

\* Trackable.register_update for the GeoLevel gl of geo: its key becomes the
\* pair of to and level
ReKeyLevel(st, geo, gl, to, level) ==
    IF to = geo /\ level = gl[1] THEN st
    ELSE IF LevelRegistered(st, to, level) THEN Raise(st, "KeyRegistered")
    ELSE [st EXCEPT !.levels = [g \in Geos |->
              (IF g = geo THEN st.levels[g] \ {gl} ELSE st.levels[g])
              \cup (IF g = to THEN {<<level, gl[2]>>} ELSE {})]]

\* GeoLevel(geo, level)
GeoLevel_init(st, geo, level) ==
    IF geo = NoGeo THEN Raise(st, "ValueError")
    ELSE IF level \notin DOMAIN UP THEN Raise(st, "ValueError")
    ELSE IF LevelRegistered(st, geo, level) THEN Raise(st, "KeyRegistered")
    ELSE [st EXCEPT !.levels[geo] = @ \cup {<<level, geo>>}]

\* gl.level = val for the GeoLevel gl of geo
set_level(st, geo, gl, val) ==
    IF val = NoLevel THEN Raise(st, "ValueError")
    ELSE ReKeyLevel(st, geo, gl, geo, val)

\* gl.geo = val for the GeoLevel gl of geo
set_geo(st, geo, gl, val) ==
    IF val = NoGeo THEN Raise(st, "ValueError")
    ELSE ReKeyLevel(st, geo, gl, val, gl[1])

-----------------------------------------------------------------------------
(* Specification of the GeoLevels of two geos *)

\* a level that is none of the taxonomy
UNKNOWN_LEVEL == "galaxy"

LevelInputs == {COUNTRY, SUBDIVISION1, PLACE, UNKNOWN_LEVEL}

\* the U.S. and, below it, Austin
TwoGeos ==
    construct(construct(EmptyGraph, 1, PlainArgs(S_US, None, None, NoGeo), ATTR_ORDER),
              2, PlainArgs(S_Austin, None, None, 1), ATTR_ORDER)

InitLevel == kin = None /\ kout = NotCalled /\ Start(TwoGeos, 0)

NewGeoLevel ==
    \E geo \in live \cup {NoGeo}, level \in LevelInputs \cup {NoLevel}, st0 \in {Graph} :
       \E st \in {GeoLevel_init(st0, geo, level)} :
          Commit(st, 0)

SetLevel ==
    \E geo \in live, val \in LevelInputs \cup {NoLevel}, st0 \in {Graph} :
       \E gl \in levels[geo] :
          \E st \in {set_level(st0, geo, gl, val)} :
             Commit(st, 0)

SetGeo ==
    \E geo \in live, val \in live \cup {NoGeo}, st0 \in {Graph} :
       \E gl \in levels[geo] :
          \E st \in {set_geo(st0, geo, gl, val)} :
             Commit(st, 0)

NextLevel == NewGeoLevel \/ SetLevel \/ SetGeo

SpecLevel == InitLevel /\ [][NextLevel]_vars

-----------------------------------------------------------------------------
(* Properties of GeoLevels *)

\* the values that are no level of the taxonomy
Unrecognized == (LevelInputs \cup {NoLevel}) \ DOMAIN UP

\* C20: the level of every GeoLevel is one of the eight levels of the
\* taxonomy, no two GeoLevels of a geo have the same level, and a level that
\* is not of the taxonomy is refused with a ValueError by the constructor and
\* by an assignment to the level of a GeoLevel that exists.
LevelValidity ==
    /\ \A g \in Geos : \A l \in levels[g] : l[1] \in DOMAIN UP
    /\ \A g \in Geos : \A l1, l2 \in levels[g] : l1[1] = l2[1] => l1 = l2
    /\ \A g \in live, val \in Unrecognized :
          /\ GeoLevel_init(Graph, g, val).err = "ValueError"
          /\ \A gl \in levels[g] : set_level(Graph, g, gl, val).err = "ValueError"


-----------------------------------------------------------------------------
(* Properties of key derivation over pairs of inputs *)

\* the inputs of create_key that share the path parent of the call kin
SamePathInputs ==
    {o \in [name : KeyNames, abbrev : KeyAbbrevs, qualifier : KeyQualifiers,
            path : KeyPaths] : o.path = kin.path}

-----------------------------------------------------------------------------
(* Further properties of the alias operations *)

\* in s2 the alias edge from g to target of s1 is gone, and the parents,
\* children, data and levels of every geo and all other alias edges are
\* those of s1
OnlyEdgeDeleted(s1, s2, g, target) ==
    /\ Ok(s2)
    /\ \A x \in Geos :
          /\ References(s2, x) = References(s1, x)
          /\ s2.alias_targets[x] = IF x = g THEN s1.alias_targets[x] \ {target}
                                   ELSE s1.alias_targets[x]

\* C22: remove_alias_target(target) on an alias of target deletes the alias
\* edge and nothing else, also straight after the add_alias_target(target)
\* that transferred the references of the alias to the target.
RemoveDeletesOnlyEdge ==
    /\ \A g \in live : \A target \in alias_targets[g] :
          OnlyEdgeDeleted(Graph, remove_alias_target(Graph, g, target), g, target)
    /\ \A g \in live, target \in live, order \in AttrOrders :
          \A s1 \in {add_alias_target(Graph, g, target, order, RecursionLimit)} :
             (Ok(s1) /\ target \in s1.alias_targets[g]) =>
                 OnlyEdgeDeleted(s1, remove_alias_target(s1, g, target), g, target)

\* an alias whose data was transferred to its target
RemoveDeletesOnlyEdgeWitness ==
    \E g \in live : \E target \in alias_targets[g] :
       /\ data[target] = g
       /\ data[g] = NoData


\* A is neither an alias nor a target of aliases, and B is another geo that
\* is no alias: A.add_alias_target(B) is a plain merge of A into B
PlainMerge(A, B) ==
    /\ A # B
    /\ alias_targets[A] = {}
    /\ aliases(Graph, A) = {}
    /\ alias_targets[B] = {}

\* C23 as stated: a merge of a non-alias geo into a target returns only when
\* the parents, children, data and levels of the target are all empty.
MergeNeedsEmptyTarget ==
    \A A \in live, B \in live, order \in AttrOrders :
        (PlainMerge(A, B) /\ Ok(add_alias_target(Graph, A, B, order, RecursionLimit)))
            => \A attr \in Attrs : Empty(Graph, B, attr)

\* C23 amended: a merge of a non-alias geo into a target returns exactly when
\* the target is empty in each of parents, children, data and levels that
\* the merged geo is not empty in, and raises AttributeConflict otherwise.
MergeNeedsNoSharedAttribute ==
    \A A \in live, B \in live, order \in AttrOrders :
        PlainMerge(A, B) =>
            \A s \in {add_alias_target(Graph, A, B, order, RecursionLimit)} :
               /\ Ok(s) <=> \A attr \in Attrs : Empty(Graph, A, attr) \/ Empty(Graph, B, attr)
               /\ ~Ok(s) => s.err = "AttributeConflict"

\* a geo holding data can be merged into a target that holds parents, and a
\* geo holding data cannot be merged into another target that holds data
MergeNeedsNoSharedAttributeWitness ==
    \E A \in live, B \in live, C \in live :
       /\ PlainMerge(A, B) /\ PlainMerge(A, C)
       /\ ~Empty(Graph, A, DATA) /\ Empty(Graph, A, PARENTS)
       /\ ~Empty(Graph, B, PARENTS)
       /\ Ok(add_alias_target(Graph, A, B, ATTR_ORDER, RecursionLimit))
       /\ ~Empty(Graph, C, DATA)
       /\ ~Ok(add_alias_target(Graph, A, C, ATTR_ORDER, RecursionLimit))


\* C24: a geo that has alias targets has no parents, no children, no data
\* and no levels, however it was constructed.
AliasHoldsNoReferences ==
    \A g \in live :
        alias_targets[g] # {} => \A attr \in Attrs : Empty(Graph, g, attr)


-----------------------------------------------------------------------------
(* Further properties of the keys *)

\* key is the human_id of a live geo other than g
OwnedByAnother(g, key) == \E h \in live \ {g} : human_id[h] = key

\* the assignment that returned st raised on a registered key
Duplicate(st) == st.err = "KeyRegistered"

\* st has the names, abbreviations, qualifiers, path parents, keys and
\* registry of the state
KeysAsBefore(st) ==
    /\ st.name = name /\ st.abbrev = abbrev /\ st.qualifier = qualifier
    /\ st.path_parent = path_parent
    /\ st.human_id = human_id /\ st.registry = registry

\* C25: an assignment to name, abbrev, qualifier, path_parent or human_id
\* that would give the geo the key of another live geo raises the
\* duplicate-key error, and an assignment that raises it, for the geo or for
\* a path descendant the cascade reaches, leaves the assigned attribute,
\* every human_id and the registry as they were.
DuplicateRenameRejected ==
    \A g \in live :
        /\ \A val \in GeoNames : \A s \in {set_name(Graph, g, val)} :
              /\ (abbrev[g] = None
                  /\ OwnedByAnother(g, KeyOf(Graph, val, None, qualifier[g], path_parent[g])))
                    => Duplicate(s)
              /\ Duplicate(s) => KeysAsBefore(s)
        /\ \A val \in GeoAbbrevs : \A s \in {set_abbrev(Graph, g, val)} :
              /\ OwnedByAnother(g, KeyOf(Graph, name[g], val, qualifier[g], path_parent[g]))
                    => Duplicate(s)
              /\ Duplicate(s) => KeysAsBefore(s)
        /\ \A val \in GeoQualifiers : \A s \in {set_qualifier(Graph, g, val)} :
              /\ OwnedByAnother(g, KeyOf(Graph, name[g], abbrev[g], val, path_parent[g]))
                    => Duplicate(s)
              /\ Duplicate(s) => KeysAsBefore(s)
        /\ \A val \in live \cup {NoGeo} : \A s \in {set_path_parent(Graph, g, val)} :
              /\ OwnedByAnother(g, KeyOf(Graph, name[g], abbrev[g], qualifier[g], val))
                    => Duplicate(s)
              /\ Duplicate(s) => KeysAsBefore(s)
        /\ \A val \in ForcedKeys : \A s \in {set_human_id(Graph, g, val, RecursionLimit)} :
              /\ OwnedByAnother(g, val) => Duplicate(s)
              /\ Duplicate(s) => KeysAsBefore(s)


\* C26: when S.add_alias_target(T) returns for a geo S that has aliases of
\* which T is none, every former alias of S has T and not S among its
\* targets, S has no aliases and S is an alias of T; when it returns for a T
\* that is an alias of S, S and the other former aliases of S are aliases
\* of T.
AliasesRedirected ==
    \A S \in live, T \in live, order \in AttrOrders :
        (S # T /\ T \notin alias_targets[S] /\ aliases(Graph, S) # {}) =>
            \A s \in {add_alias_target(Graph, S, T, order, RecursionLimit)} :
               Ok(s) =>
                  IF T \notin aliases(Graph, S)
                  THEN /\ \A a \in aliases(Graph, S) :
                             T \in s.alias_targets[a] /\ S \notin s.alias_targets[a]
                       /\ aliases(s, S) = {}
                       /\ T \in s.alias_targets[S]
                  ELSE /\ T \in s.alias_targets[S]
                       /\ \A a \in aliases(Graph, S) \ {T} : T \in s.alias_targets[a]

\* a geo with an alias can be made an alias of a third geo
AliasesRedirectedWitness ==
    \E S \in live, T \in live :
       /\ S # T /\ T \notin alias_targets[S]
       /\ aliases(Graph, S) # {} /\ T \notin aliases(Graph, S)
       /\ Ok(add_alias_target(Graph, S, T, ATTR_ORDER, RecursionLimit))


\* C27: add_alias_target(self) raises CircularReference and changes nothing;
\* add_alias_target of a geo that is a target already changes nothing, so a
\* second call after one that returned changes nothing.
AddAliasTargetIdempotent ==
    \A g \in live, order \in AttrOrders :
        /\ add_alias_target(Graph, g, g, order, RecursionLimit)
               = Raise(Graph, "CircularReference")
        /\ \A target \in alias_targets[g] :
              add_alias_target(Graph, g, target, order, RecursionLimit) = Graph
        /\ \A target \in live :
              \A s1 \in {add_alias_target(Graph, g, target, order, RecursionLimit)} :
                 Ok(s1) => add_alias_target(s1, g, target, order, RecursionLimit) = s1

\* a geo that holds data can be made an alias of another geo of which it is
\* no alias yet, and some geo is an alias already
AddAliasTargetIdempotentWitness ==
    /\ \E g \in live : alias_targets[g] # {}
    /\ \E g \in live, target \in live :
          /\ g # target /\ target \notin alias_targets[g]
          /\ data[g] # NoData
          /\ Ok(add_alias_target(Graph, g, target, ATTR_ORDER, RecursionLimit))


\* C28: promote_to_alias_target on a geo without alias target returns and
\* changes nothing; on a geo with more than one alias target it raises
\* ValueError and changes nothing.
PromoteRefusals ==
    \A g \in live, order \in AttrOrders :
        /\ alias_targets[g] = {} =>
              promote_to_alias_target(Graph, g, order, RecursionLimit) = Graph
        /\ Cardinality(alias_targets[g]) > 1 =>
              promote_to_alias_target(Graph, g, order, RecursionLimit)
                  = Raise(Graph, "ValueError")

\* an alias of two geos, one of which holds data
PromoteRefusalsWitness ==
    \E g \in live :
       /\ Cardinality(alias_targets[g]) > 1
       /\ \E t \in alias_targets[g] : data[t] # NoData


\* the eight level names
LevelKeys == {COUNTRY, SUBDIVISION1, SUBDIVISION2, SUBDIVISION3, COMBINED_AREA,
              CORE_AREA, PLACE, SUBPLACE}

\* C29: UP and DOWN have the eight level names as keys, no traversal of DOWN
\* or of UP comes back to the level it started at, and the level a traversal
\* has reached has an UP entry unless it is country and a DOWN entry unless
\* it is subplace.
TaxonomyWellFormed ==
    /\ DOMAIN UP = LevelKeys
    /\ DOMAIN DOWN = LevelKeys
    /\ Cardinality(LevelKeys) = 8
    /\ kin.steps > 0 => kin.at # kin.start
    /\ kin.at # COUNTRY => UP[kin.at] # <<>>
    /\ kin.at # SUBPLACE => DOWN[kin.at] # <<>>

\* the traversal of DOWN from country that passes every level it can, and
\* has reached subplace
TaxonomyWellFormedWitness ==
    /\ kin.relation = "DOWN"
    /\ kin.start = COUNTRY
    /\ kin.at = SUBPLACE
    /\ kin.steps = TaxonomyDepth


-----------------------------------------------------------------------------
(* The top and the bottom level of a geo *)

\* the keys of GeoLevel.DOWN, in the order of the table
DOWN_keys == <<COUNTRY, SUBDIVISION1, COMBINED_AREA, CORE_AREA, SUBDIVISION2,
               SUBDIVISION3, PLACE, SUBPLACE>>

\* the keys of GeoLevel.UP, in the order of the table
UP_keys == <<SUBPLACE, PLACE, SUBDIVISION3, SUBDIVISION2, CORE_AREA,
             COMBINED_AREA, SUBDIVISION1, COUNTRY>>

\* next() of a generator that has nothing to give
StopIteration == "StopIteration"

\* set(self.levels): the keys of the levels of geo
LevelSet(st, geo) == {l[1] : l \in st.levels[geo]}

\* Geo.level_down_keys, for the set of the levels of the geo
level_down_keys(assigned) == SelectSeq(DOWN_keys, LAMBDA lvl : lvl \in assigned)

\* Geo.level_up_keys, for the set of the levels of the geo
level_up_keys(assigned) == SelectSeq(UP_keys, LAMBDA lvl : lvl \in assigned)

\* next(keys)
next(keys) == IF keys = <<>> THEN StopIteration ELSE Head(keys)

\* geo.top_level_key
top_level_key(st, geo) ==
    IF st.levels[geo] = {} THEN NoLevel
    ELSE next(level_down_keys(LevelSet(st, geo)))

\* geo.bottom_level_key
bottom_level_key(st, geo) ==
    IF st.levels[geo] = {} THEN NoLevel
    ELSE next(level_up_keys(LevelSet(st, geo)))

RECURSIVE DownFrom(_)
\* the levels that DOWN leads to from level, in one step or more
DownFrom(level) ==
    IF level \notin DOMAIN DOWN THEN {}
    ELSE UNION {{DOWN[level][i]} \cup DownFrom(DOWN[level][i]) :
                   i \in DOMAIN DOWN[level]}

\* top is a level of assigned that no other level of assigned leads down to
TopOf(assigned, top) ==
    /\ top \in assigned
    /\ \A other \in assigned \ {top} : top \notin DownFrom(other)

\* bottom is a level of assigned that leads down to no other level of assigned
BottomOf(assigned, bottom) ==
    /\ bottom \in assigned
    /\ \A other \in assigned \ {bottom} : other \notin DownFrom(bottom)

-----------------------------------------------------------------------------
(* GeoIDs.  A GeoID is a record of its level (the geo whose GeoLevel it
   belongs to, NoGeoLevel when it belongs to none), the key it is held under
   in GeoLevel.ids, its standard and its code.                              *)

FIPS == "FIPS"
ANSI == "ANSI"
ISO_A2 == "ISO_A2"
ISO_A3 == "ISO_A3"
ISO_N3 == "ISO_N3"
CSA_2010 == "CSA_2010"
CBSA_2010 == "CBSA_2010"

STANDARDS == {FIPS, ANSI, ISO_A2, ISO_A3, ISO_N3, CSA_2010, CBSA_2010}

\* None where a GeoLevel is expected
NoGeoLevel == 0

\* None where a standard or a code is expected
NoText == "None"

\* a GeoID of standard and code is in the registry of GeoID
IDRegistered(idset, standard, code) ==
    \E i \in idset : i.standard = standard /\ i.code = code

\* Trackable.register_update for the GeoID id: its key becomes the pair of
\* standard and code
ReKeyID(idset, id, standard, code) ==
    IF standard = id.standard /\ code = id.code THEN [ids |-> idset, err |-> "ok"]
    ELSE IF IDRegistered(idset, standard, code)
    THEN [ids |-> idset, err |-> "KeyRegistered"]
    ELSE [ids |-> (idset \ {id})
                     \cup {[id EXCEPT !.standard = standard, !.code = code]},
          err |-> "ok"]

\* self.level = level, at the end of GeoID.__init__: the new GeoID takes the
\* place of the GeoID that level.ids holds under the same key
AttachID(idset, id) ==
    {IF i.level = id.level /\ i.key = id.key
     THEN [i EXCEPT !.level = NoGeoLevel, !.key = NoText] ELSE i : i \in idset}
    \cup {id}

\* GeoID(level, standard, code)
GeoID_init(idset, level, standard, code) ==
    IF level = NoGeoLevel THEN [ids |-> idset, err |-> "ValueError"]
    ELSE IF standard \notin STANDARDS THEN [ids |-> idset, err |-> "ValueError"]
    ELSE IF code \in {"", NoText} THEN [ids |-> idset, err |-> "ValueError"]
    ELSE IF IDRegistered(idset, standard, code)
    THEN [ids |-> idset, err |-> "KeyRegistered"]
    ELSE [ids |-> AttachID(idset, [level |-> level, key |-> standard,
                                   standard |-> standard, code |-> code]),
          err |-> "ok"]

\* id.standard = val
set_standard(idset, id, val) ==
    IF val = NoText THEN [ids |-> idset, err |-> "ValueError"]
    ELSE ReKeyID(idset, id, val, id.code)

\* id.code = val
set_code(idset, id, val) ==
    IF val = NoText THEN [ids |-> idset, err |-> "ValueError"]
    ELSE ReKeyID(idset, id, id.standard, val)

-----------------------------------------------------------------------------
(* Specification of the GeoIDs of the GeoLevels of two geos *)

\* a standard that is none of the enumeration
UNKNOWN_STANDARD == "XYZ"

StandardInputs == {FIPS, ANSI, UNKNOWN_STANDARD, NoText}

CodeInputs == {"1", "2", "", NoText}

\* the U.S. as a country and Austin as a place
TwoLevels == GeoLevel_init(GeoLevel_init(TwoGeos, 1, COUNTRY), 2, PLACE)

InitGeoID ==
    /\ kin = None
    /\ kout = NotCalled
    /\ live = TwoLevels.live
    /\ name = TwoLevels.name
    /\ abbrev = TwoLevels.abbrev
    /\ qualifier = TwoLevels.qualifier
    /\ path_parent = TwoLevels.path_parent
    /\ human_id = TwoLevels.human_id
    /\ registry = TwoLevels.registry
    /\ alias_targets = TwoLevels.alias_targets
    /\ parents = TwoLevels.parents
    /\ data = TwoLevels.data
    /\ levels = TwoLevels.levels
    /\ budget = 0
    /\ ids = {}
    /\ iod = None
    /\ pcr = None

\* the GeoIDs that a behaviour constructs
MaxIDs == 3

NewGeoID ==
    /\ Cardinality(ids) < MaxIDs
    /\ \E level \in live \cup {NoGeoLevel}, standard \in StandardInputs,
          code \in CodeInputs :
          ids' = GeoID_init(ids, level, standard, code).ids
    /\ UNCHANGED <<kin, kout, graphVars, iod, pcr>>

SetStandard ==
    /\ \E id \in ids, val \in StandardInputs :
          ids' = set_standard(ids, id, val).ids
    /\ UNCHANGED <<kin, kout, graphVars, iod, pcr>>

SetCode ==
    /\ \E id \in ids, val \in CodeInputs :
          ids' = set_code(ids, id, val).ids
    /\ UNCHANGED <<kin, kout, graphVars, iod, pcr>>

NextGeoID == NewGeoID \/ SetStandard \/ SetCode

SpecGeoID == InitGeoID /\ [][NextGeoID]_vars

-----------------------------------------------------------------------------
(* Properties of GeoIDs *)

\* C31: the standard of every GeoID is one of the seven standards of the
\* enumeration, also after its standard has been assigned anew, no GeoLevel
\* has two GeoIDs of the same standard, and the constructor refuses a missing
\* level, a standard that is not of the enumeration and an empty code with a
\* ValueError.
IDValidity ==
    /\ \A i \in ids : i.standard \in STANDARDS
    /\ \A i, j \in ids :
          i.level # NoGeoLevel /\ i.level = j.level /\ i.standard = j.standard
             => i = j
    /\ \A level \in live \cup {NoGeoLevel}, standard \in StandardInputs,
          code \in CodeInputs :
          (level = NoGeoLevel \/ standard \notin STANDARDS \/ code \in {"", NoText})
             => GeoID_init(ids, level, standard, code)
                   = [ids |-> ids, err |-> "ValueError"]


-----------------------------------------------------------------------------
(* The scope specification: geos are constructed, aliases of two targets
   among them, then one component is matched under a parent. *)

\* the lists of at most two alias targets
TargetLists(S) == Lists(S) \cup {q \in S \X S : q[1] # q[2]}

ScopeTexts == {S_Au, S_Texas}

ConstructScoped ==
    /\ kout = NotCalled
    /\ live # Geos
    /\ \E pl \in MatchPlaces, pp \in live \cup {NoGeo}, tg \in TargetLists(live),
          dt \in BOOLEAN, g \in {Fresh}, st0 \in {Graph} :
         \E st \in {construct(st0, g, MatchArgs(pl, pp, tg, dt), ATTR_ORDER)} :
            Commit(st, 0)

\* kin is the call, kout what it returned or raised
FindComponentMatches ==
    /\ kout = NotCalled
    /\ \E text \in ScopeTexts, match_type \in MatchTypes, parent \in live \cup {NoGeo},
          elevate \in {TRUE}, ci \in BOOLEAN, rank \in QueryOrders(Graph) :
          /\ kin' = [text |-> text, match_type |-> match_type, parent |-> parent,
                     elevate |-> elevate, ci |-> ci, rank |-> rank]
          /\ kout' = find_component_matches(Graph, text, match_type, parent,
                                            elevate, ci, rank)
    /\ UNCHANGED geoVars

NextScope == ConstructScoped \/ FindComponentMatches

SpecScope == InitMatch /\ [][NextScope]_vars

\* the alias targets of g that rank first: a target with data when any has
\* data, and of these one of the largest total population
MostPopulous(g) ==
    {t \in alias_targets[g] :
        /\ data[t] = NoData => \A u \in alias_targets[g] : data[u] = NoData
        /\ data[t] # NoData =>
              \A u \in alias_targets[g] :
                 data[u] # NoData => total_pop(data[u]) <= total_pop(data[t])}

\* the path children of scope that the call kin selects
Selected(scope) ==
    {g \in path_children(Graph, scope) :
        Matches(Graph, g, kin.text, kin.match_type, scope, kin.ci)}

\* C32: when the parent of find_component_matches is an alias, the geos
\* returned are the selected path children of one of its alias targets that
\* rank first by total population, targets without data below all targets
\* with data, and not those of the alias.
AliasParentScope ==
    (Returned /\ kin.parent # NoGeo /\ alias_targets[kin.parent] # {})
       => \E t \in MostPopulous(kin.parent) : Range(kout.matches) = Selected(t)

\* the parent is an alias of two targets with data, the path children of the
\* more populous one are returned and a path child of the other that the
\* text selects is not
AliasParentScopeWitness ==
    /\ Returned
    /\ kin.parent # NoGeo
    /\ Cardinality(alias_targets[kin.parent]) = 2
    /\ \A t \in alias_targets[kin.parent] : data[t] # NoData
    /\ kout.matches # <<>>
    /\ \E u \in alias_targets[kin.parent] \ MostPopulous(kin.parent) :
          Selected(u) \ Range(kout.matches) # {}


-----------------------------------------------------------------------------
(* Two calls of find_matches that run at the same time.  kin holds the two
   calls: where each stands in find_matches and the local variables it has.
   A step of a call is one query of find_component_matches, or the pruning
   of its final list.                                                       *)

\* a call that has not begun
IdleCall ==
    [pc |-> "idle", text |-> <<>>, match_type |-> BEST, ci |-> TRUE, rank |-> <<>>,
     i |-> 0, parent |-> NoGeo, prior_parent |-> NoGeo, matches |-> <<>>,
     err |-> "ok", overlapped |-> FALSE]

\* find_matches up to its loop: the path components are inferred
BeginCall(text, match_type, ci, rank, overlapped) ==
    [IdleCall EXCEPT !.pc = IF infer_path_component_names(text) = <<>>
                            THEN "done" ELSE "loop",
                     !.text = text, !.match_type = match_type, !.ci = ci,
                     !.rank = rank, !.i = 1, !.overlapped = overlapped]

\* the other of the two calls
Other(p) == 3 - p

\* a call has begun and not returned
Running(c) == c.pc \notin {"idle", "done"}

\* one iteration of the for loop of find_matches in the call c
LoopStep(st, c) ==
    LET path_components == infer_path_component_names(c.text)
        component == path_components[c.i]
        found == find_component_matches(st, component, c.match_type, c.parent,
                                        Len(component) > 1, c.ci, c.rank)
    IN IF found.err # "ok" THEN [c EXCEPT !.pc = "done", !.err = found.err]
       ELSE IF found.matches = <<>>
       THEN [c EXCEPT !.pc = "retry", !.matches = <<>>]
       ELSE [c EXCEPT !.pc = IF c.i = Len(path_components) THEN "retry" ELSE "loop",
                      !.i = @ + 1, !.matches = found.matches,
                      !.prior_parent = c.parent, !.parent = found.matches[1]]

\* the retry of find_matches with the two leftmost components joined
RetryStep(st, c) ==
    LET path_components == infer_path_component_names(c.text)
        n == Len(path_components)
    IN IF c.matches = <<>> /\ n > 1
       THEN LET found == find_component_matches(st,
                             JoinComma(path_components[n], path_components[n - 1]),
                             c.match_type, c.prior_parent, TRUE, c.ci, c.rank)
            IN IF found.err # "ok" THEN [c EXCEPT !.pc = "done", !.err = found.err]
               ELSE [c EXCEPT !.pc = "prune", !.matches = found.matches]
       ELSE [c EXCEPT !.pc = "prune"]

\* cls.remove_redundant_aliases(matches); return matches
PruneStep(st, c) ==
    [c EXCEPT !.pc = "done", !.matches = remove_redundant_aliases(st, c.matches)]

\* find_matches, were parent and prior_parent attributes of the class that
\* the calls share
Resume_shared(st, calls, p) ==
    LET c == IF Running(calls[Other(p)])
             THEN [calls[p] EXCEPT !.parent = calls[Other(p)].parent,
                                   !.prior_parent = calls[Other(p)].prior_parent]
             ELSE calls[p]
    IN CASE c.pc = "loop" -> LoopStep(st, c)
         [] c.pc = "retry" -> RetryStep(st, c)
         [] OTHER -> PruneStep(st, c)

\* the next step of the call p of calls
Resume(st, calls, p) ==
    LET c == calls[p]
    IN CASE c.pc = "loop" -> LoopStep(st, c)
         [] c.pc = "retry" -> RetryStep(st, c)
         [] OTHER -> PruneStep(st, c)

ConcurrentTexts == {S_Texas, S_AustinTX}

InitConcurrent == kin = <<IdleCall, IdleCall>> /\ kout = NotCalled /\ Start(EmptyGraph, 0)

\* the entity set is built before matching begins
ConstructShared ==
    /\ \A p \in 1..2 : kin[p].pc = "idle"
    /\ live # Geos
    /\ \E pl \in MatchPlaces, pp \in live \cup {NoGeo}, tg \in Lists(live),
          dt \in {TRUE}, g \in {Fresh}, st0 \in {Graph} :
         \E st \in {construct(st0, g, MatchArgs(pl, pp, tg, dt), ATTR_ORDER)} :
            Commit(st, 0)

Begin ==
    /\ \E p \in 1..2 :
          /\ kin[p].pc = "idle"
          /\ \E text \in ConcurrentTexts, match_type \in {BEST}, ci \in {TRUE},
                rank \in QueryOrders(Graph) :
                kin' = [kin EXCEPT ![p] = BeginCall(text, match_type, ci, rank,
                                                    Running(kin[Other(p)]))]
    /\ UNCHANGED <<kout, geoVars>>

Step ==
    /\ \E p \in 1..2 :
          /\ Running(kin[p])
          /\ kin' = [kin EXCEPT ![p] =
                        [Resume(Graph, kin, p) EXCEPT
                            !.overlapped = @ \/ Running(kin[Other(p)])]]
    /\ UNCHANGED <<kout, geoVars>>

NextConcurrent == ConstructShared \/ Begin \/ Step

SpecConcurrent == InitConcurrent /\ [][NextConcurrent]_vars

\* C33: a step of a call of find_matches changes no attribute of a geo, no
\* key, no alias edge and no entry of the registry, and a call that has
\* returned while another call was running has the list that find_matches
\* gives for its text when it runs alone.
MatchingReadOnly ==
    /\ [](\A p \in 1..2 :
             kin[p].pc = "done" =>
                [err |-> kin[p].err, matches |-> kin[p].matches]
                   = find_matches(Graph, kin[p].text, kin[p].match_type,
                                  kin[p].ci, kin[p].rank))
    /\ [][kin' # kin => UNCHANGED geoVars]_vars

\* both calls have returned geos, the steps of each were taken while the other
\* was running, and they matched different texts
MatchingReadOnlyWitness ==
    /\ \A p \in 1..2 :
          kin[p].pc = "done" /\ kin[p].overlapped /\ kin[p].matches # <<>>
    /\ kin[1].text # kin[2].text
    /\ kin[1].matches # kin[2].matches


\* C34: the assignment of a name to a geo that has an abbreviation returns
\* and changes the name of the geo alone: its human_id, the human_id of every
\* other geo and the registry are as before.
RenameKeepsAbbrevKey ==
    \A g \in live, val \in GeoNames :
       abbrev[g] # None =>
          \A s \in {set_name(Graph, g, val)} :
             /\ Ok(s)
             /\ s.human_id = human_id
             /\ s.registry = registry
             /\ s = [Graph EXCEPT !.name[g] = val]

\* a geo with an abbreviation and a path child, whose name is not the only
\* name that can be assigned
RenameKeepsAbbrevKeyWitness ==
    \E g \in live, val \in GeoNames :
       /\ abbrev[g] # None
       /\ val # name[g]
       /\ path_children(Graph, g) # {}
       /\ set_name(Graph, g, val).name[g] = val


\* C35: the constructor called with alias targets and with aliases raises
\* ValueError with no alias edge added, no key assigned to the new geo, and
\* the alias targets, parents, children, data, levels and keys of the geos
\* that exist, and the registry, as before.
BothAliasArgumentsRefused ==
    live # Geos =>
       \A tg \in Lists(live) \ {<<>>}, al \in Lists(live) \ {<<>>}, p \in Lists(live),
          dt \in BOOLEAN, order \in AttrOrders :
          \A s \in {Geo_init(Graph, Fresh,
                             AliasArgs(Fresh, tg, al, Range(p), dt, {}), order)} :
             /\ s.err = "ValueError"
             /\ s.alias_targets = alias_targets
             /\ s.human_id = human_id
             /\ s.human_id[Fresh] = None
             /\ s.registry = registry
             /\ s.parents = parents
             /\ s.data = data
             /\ s.levels = levels
             /\ s.live = live

\* a geo can be constructed, and among the geos that exist are an alias and
\* a geo with data and a parent
BothAliasArgumentsRefusedWitness ==
    /\ live # Geos
    /\ \E a \in live : alias_targets[a] # {}
    /\ \E t \in live : data[t] # NoData /\ parents_of(Graph, t) # {}
    /\ Geo_init(Graph, Fresh, AliasArgs(Fresh, <<1>>, <<1>>, {}, FALSE, {}),
                ATTR_ORDER).err = "ValueError"


-----------------------------------------------------------------------------
(* InsertableOrderedDict.  A dict is a record of iod (self._iod: key ->
   <<value, next, prior>>), beg (self._beg) and end (self._end); err is the
   exception the call raised, after which the statements that follow it are
   skipped.                                                                 *)

\* InsertableOrderedDict.sentinel
sentinel == "<Sentinel: 0>"

\* InsertableOrderedDict(): _initialize over no items
EmptyDict == [iod |-> <<>>, beg |-> sentinel, end |-> sentinel, err |-> "ok"]

\* self._iod[key] = item
Store(iod_, key, item) == [k \in DOMAIN iod_ \cup {key} |-> IF k = key THEN item ELSE iod_[k]]

\* del self._iod[key]
Drop(iod_, key) == [k \in DOMAIN iod_ \ {key} |-> iod_[k]]

\* d.get(key, default)
get(d, key, default) == IF key \in DOMAIN d.iod THEN d.iod[key][1] ELSE default

\* d._insert_between(next_key, prior_key, key, value)
insert_between(d, next_key, prior_key, key, value) ==
    IF get(d, key, sentinel) # sentinel THEN [d EXCEPT !.err = "KeyError"]
    ELSE LET d1 == [d EXCEPT !.iod = Store(@, key, <<value, next_key, prior_key>>)]
             d2 == IF next_key # sentinel
                   THEN IF next_key \notin DOMAIN d1.iod
                        THEN [d1 EXCEPT !.err = "KeyError"]
                        ELSE [d1 EXCEPT !.iod = Store(@, next_key,
                                     <<d1.iod[next_key][1], d1.iod[next_key][2], key>>)]
                   ELSE [d1 EXCEPT !.end = key]
         IN IF d2.err # "ok" THEN d2
            ELSE IF prior_key # sentinel
            THEN IF prior_key \notin DOMAIN d2.iod
                 THEN [d2 EXCEPT !.err = "KeyError"]
                 ELSE [d2 EXCEPT !.iod = Store(@, prior_key,
                              <<d2.iod[prior_key][1], key, d2.iod[prior_key][3]>>)]
            ELSE [d2 EXCEPT !.beg = key]

\* d.insert(insert_key, key, value, after), with the two sides exchanged
insert_other_side(d, insert_key, key, value, after) ==
    IF insert_key \notin DOMAIN d.iod THEN [d EXCEPT !.err = "KeyError"]
    ELSE IF ~after
    THEN insert_between(d, d.iod[insert_key][2], insert_key, key, value)
    ELSE insert_between(d, insert_key, d.iod[insert_key][3], key, value)

\* d.insert(insert_key, key, value, after)
insert(d, insert_key, key, value, after) ==
    IF insert_key \notin DOMAIN d.iod THEN [d EXCEPT !.err = "KeyError"]
    ELSE IF after
    THEN insert_between(d, d.iod[insert_key][2], insert_key, key, value)
    ELSE insert_between(d, insert_key, d.iod[insert_key][3], key, value)

\* d.append(key, value)
append(d, key, value) == insert_between(d, sentinel, d.end, key, value)

\* d.prepend(key, value)
prepend(d, key, value) == insert_between(d, d.beg, sentinel, key, value)

\* d[key] = value
setitem(d, key, value) ==
    IF key \in DOMAIN d.iod
    THEN [d EXCEPT !.iod = Store(@, key, <<value, d.iod[key][2], d.iod[key][3]>>)]
    ELSE append(d, key, value)

\* del d[key]
delitem(d, key) ==
    IF key \notin DOMAIN d.iod THEN [d EXCEPT !.err = "KeyError"]
    ELSE LET next_key == d.iod[key][2]
             prior_key == d.iod[key][3]
             d1 == IF next_key # sentinel
                   THEN [d EXCEPT !.iod = Store(@, next_key,
                               <<d.iod[next_key][1], d.iod[next_key][2], prior_key>>)]
                   ELSE [d EXCEPT !.end = prior_key]
             d2 == IF prior_key # sentinel
                   THEN [d1 EXCEPT !.iod = Store(@, prior_key,
                               <<d1.iod[prior_key][1], next_key, d1.iod[prior_key][3]>>)]
                   ELSE [d1 EXCEPT !.beg = next_key]
         IN [d2 EXCEPT !.iod = Drop(@, key)]

\* d.clear()
clear(d) == [d EXCEPT !.iod = <<>>, !.beg = sentinel, !.end = sentinel]

\* d.reverse(), with the begin and end markers left as they are
reverse_items(d) ==
    [d EXCEPT !.iod = [k \in DOMAIN @ |-> <<@[k][1], @[k][3], @[k][2]>>]]

\* d.reverse()
reverse(d) ==
    [d EXCEPT !.iod = [k \in DOMAIN @ |-> <<@[k][1], @[k][3], @[k][2]>>],
              !.beg = d.end, !.end = d.beg]

\* the keys that the loop 'while key is not self.sentinel' yields from key on,
\* following the field at of the items; it ends with KeyError at a key that is
\* not stored, and after more than fuel keys it is cut with the marker of a
\* loop that does not end
RECURSIVE Yield(_, _, _, _)
Yield(d, key, at, fuel) ==
    IF key = sentinel THEN <<>>
    ELSE IF key \notin DOMAIN d.iod THEN <<"KeyError">>
    ELSE IF fuel = 0 THEN <<"...">>
    ELSE <<key>> \o Yield(d, d.iod[key][at], at, fuel - 1)

\* list(d)
Forward(d) == Yield(d, d.beg, 2, Cardinality(DOMAIN d.iod))

\* list(reversed(d))
Backward(d) == Yield(d, d.end, 3, Cardinality(DOMAIN d.iod))

-----------------------------------------------------------------------------
(* Specification of one InsertableOrderedDict *)

DictKeys == {"a", "b", "c", "d"}

DictValues == {"v", "w"}

InitDict ==
    /\ kin = None
    /\ kout = NotCalled
    /\ live = EmptyGraph.live
    /\ name = EmptyGraph.name
    /\ abbrev = EmptyGraph.abbrev
    /\ qualifier = EmptyGraph.qualifier
    /\ path_parent = EmptyGraph.path_parent
    /\ human_id = EmptyGraph.human_id
    /\ registry = EmptyGraph.registry
    /\ alias_targets = EmptyGraph.alias_targets
    /\ parents = EmptyGraph.parents
    /\ data = EmptyGraph.data
    /\ levels = EmptyGraph.levels
    /\ budget = 0
    /\ ids = {}
    /\ iod = EmptyDict
    /\ pcr = None

\* the dict is left as the call left it, whether it returned or raised
Leave(d) ==
    /\ iod' = [d EXCEPT !.err = "ok"]
    /\ UNCHANGED <<kin, kout, graphVars, ids, pcr>>

DictAppend == \E key \in DictKeys, value \in DictValues : Leave(append(iod, key, value))

DictPrepend == \E key \in DictKeys, value \in DictValues : Leave(prepend(iod, key, value))

DictInsert ==
    \E insert_key \in DictKeys, key \in DictKeys, value \in DictValues, after \in BOOLEAN :
       Leave(insert(iod, insert_key, key, value, after))

DictSetItem == \E key \in DictKeys, value \in DictValues : Leave(setitem(iod, key, value))

DictDelItem == \E key \in DictKeys : Leave(delitem(iod, key))

DictReverse == Leave(reverse(iod))

DictClear == Leave(clear(iod))

NextDict ==
    \/ DictAppend
    \/ DictPrepend
    \/ DictInsert
    \/ DictSetItem
    \/ DictDelItem
    \/ DictReverse
    \/ DictClear

SpecDict == InitDict /\ [][NextDict]_vars

-----------------------------------------------------------------------------
(* Properties of InsertableOrderedDict *)

\* the place of key in the list q
IndexOf(q, key) == CHOOSE i \in 1..Len(q) : q[i] = key

\* the list q with key put in after its first n entries
PutAfter(q, n, key) == SubSeq(q, 1, n) \o <<key>> \o SubSeq(q, n + 1, Len(q))

\* C36: insert with a key that is stored raises KeyError and leaves the dict
\* as it was; with a new key and a stored reference key it returns, the new
\* key is next before the reference key in the order of iteration, or next
\* after it when after is true, the other keys are in the order they had, the
\* new key has the value given and the other keys the values they had.
InsertPlacesKey ==
    \A insert_key \in DictKeys, key \in DictKeys, value \in DictValues, after \in BOOLEAN :
       \A r \in {insert(iod, insert_key, key, value, after)} :
          /\ key \in DOMAIN iod.iod => r = [iod EXCEPT !.err = "KeyError"]
          /\ (key \notin DOMAIN iod.iod /\ insert_key \in DOMAIN iod.iod) =>
                /\ r.err = "ok"
                /\ Forward(r) = PutAfter(Forward(iod),
                                         IndexOf(Forward(iod), insert_key)
                                            - (IF after THEN 0 ELSE 1),
                                         key)
                /\ get(r, key, sentinel) = value
                /\ \A k \in DOMAIN iod.iod : get(r, k, sentinel) = get(iod, k, sentinel)

\* a dict of three keys that are not in the order of any sequence of appends
\* of a, b, c, d in turn, with room for a key between two of them
InsertPlacesKeyWitness ==
    /\ Forward(iod) = <<"c", "a", "b">>
    /\ Forward(insert(iod, "a", "d", "v", TRUE)) = <<"c", "a", "d", "b">>
    /\ Forward(insert(iod, "a", "d", "v", FALSE)) = <<"c", "d", "a", "b">>
    /\ insert(iod, "a", "c", "v", FALSE).err = "KeyError"

\* C37: iteration from the begin marker gives every stored key once and ends
\* at the sentinel, and iteration from the end marker gives the same keys in
\* the opposite order.
Linkage ==
    /\ Len(Forward(iod)) = Cardinality(DOMAIN iod.iod)
    /\ Range(Forward(iod)) = DOMAIN iod.iod
    /\ Backward(iod) = Reverse(Forward(iod))
    /\ (iod.beg = sentinel) = (DOMAIN iod.iod = {})
    /\ (iod.end = sentinel) = (DOMAIN iod.iod = {})

\* a dict of all four keys in an order that appends alone do not give, with
\* both values in it
LinkageWitness ==
    /\ Forward(iod) = <<"d", "b", "a", "c">>
    /\ {iod.iod[k][1] : k \in DOMAIN iod.iod} = DictValues


-----------------------------------------------------------------------------
(* ProblemConnectionRating.  pcr is a record of the stored rating and weight,
   of whether the problem, org and geo of the rating have a community, and of
   the rating and weight of the user that the aggregate ratings of that
   community were last updated with.  An argument is a record: whether it is
   None, whether it is an int, and its value.                               *)

MIN_RATING == 0
MAX_RATING == 4
MIN_WEIGHT == 0
MAX_WEIGHT == 1000

\* None as an argument
NoValue == [none |-> TRUE, int |-> FALSE, val |-> 0]

\* the int n as an argument
Int_(n) == [none |-> FALSE, int |-> TRUE, val |-> n]

\* an argument that is not an int, such as the float 2.5 or the string '2'
NotInt(n) == [none |-> FALSE, int |-> FALSE, val |-> n]

\* community.update_aggregate_ratings(connection, user, new_user_rating,
\* new_user_weight, old_user_rating, old_user_weight)
update_aggregate_ratings(p, new_user_rating, new_user_weight) ==
    [p EXCEPT !.aggregate = <<new_user_rating, new_user_weight>>]

\* the second half of update_values, from the check of weight on
UpdateWeight(p, rating, weight, has_updated) ==
    IF ~weight.none /\ (~weight.int \/ weight.val < MIN_WEIGHT \/ weight.val > MAX_WEIGHT)
    THEN [p EXCEPT !.err = "InvalidProblemConnectionWeight"]
    ELSE LET new_weight == IF weight.none THEN p.weight ELSE weight.val
             p1 == [p EXCEPT !.weight = new_weight]
         IN IF (has_updated \/ new_weight # p.weight) /\ p.community
            THEN update_aggregate_ratings(p1, rating, new_weight)
            ELSE p1

\* self.update_values(rating, weight)
update_values(p, rating, weight) ==
    IF rating.none /\ weight.none THEN [p EXCEPT !.err = "ValueError"]
    ELSE IF ~rating.none
            /\ (~rating.int \/ rating.val < MIN_RATING \/ rating.val > MAX_RATING)
    THEN [p EXCEPT !.err = "InvalidProblemConnectionRating"]
    ELSE LET new_rating == IF rating.none THEN p.rating ELSE rating.val
         IN UpdateWeight([p EXCEPT !.rating = new_rating], new_rating, weight,
                         new_rating # p.rating)

-----------------------------------------------------------------------------
(* Specification of one ProblemConnectionRating *)

\* the weights within range that are taken
Weights == {MIN_WEIGHT, 1, 2, MAX_WEIGHT}

RatingInputs == {NoValue, NotInt(2), Int_(MIN_RATING - 1), Int_(MAX_RATING + 1)}
                   \cup {Int_(n) : n \in MIN_RATING..MAX_RATING}

WeightInputs == {NoValue, NotInt(1), Int_(MIN_WEIGHT - 1), Int_(MAX_WEIGHT + 1)}
                   \cup {Int_(n) : n \in Weights}

\* the ratings constructed: the constructor has stored its rating and weight
\* through update_values, which has updated the aggregate of the community
\* there is
Constructed ==
    {[rating |-> r, weight |-> w, community |-> c,
      aggregate |-> IF c THEN <<r, w>> ELSE <<>>, err |-> "ok"] :
        r \in MIN_RATING..MAX_RATING, w \in Weights,
        c \in BOOLEAN}

InitRating ==
    /\ kin = None
    /\ kout = NotCalled
    /\ live = EmptyGraph.live
    /\ name = EmptyGraph.name
    /\ abbrev = EmptyGraph.abbrev
    /\ qualifier = EmptyGraph.qualifier
    /\ path_parent = EmptyGraph.path_parent
    /\ human_id = EmptyGraph.human_id
    /\ registry = EmptyGraph.registry
    /\ alias_targets = EmptyGraph.alias_targets
    /\ parents = EmptyGraph.parents
    /\ data = EmptyGraph.data
    /\ levels = EmptyGraph.levels
    /\ budget = 0
    /\ ids = {}
    /\ iod = None
    /\ pcr \in Constructed

\* the rating is left as the call left it, whether it returned or raised
LeaveRating(p) ==
    /\ pcr' = [p EXCEPT !.err = "ok"]
    /\ UNCHANGED <<kin, kout, graphVars, ids, iod>>

UpdateValues ==
    \E rating \in RatingInputs, weight \in WeightInputs :
       LeaveRating(update_values(pcr, rating, weight))

\* r.rating = val
SetRating == \E val \in RatingInputs : LeaveRating(update_values(pcr, val, NoValue))

\* r.weight = val
SetWeight == \E val \in WeightInputs : LeaveRating(update_values(pcr, NoValue, val))

NextRating == UpdateValues \/ SetRating \/ SetWeight

SpecRating == InitRating /\ [][NextRating]_vars

-----------------------------------------------------------------------------
(* Properties of ProblemConnectionRating *)

\* the call raised for its rating or its weight
Invalid(p) ==
    p.err \in {"InvalidProblemConnectionRating", "InvalidProblemConnectionWeight"}

\* C38: a call of update_values that raises for a rating or a weight that is
\* out of range or not an int leaves the stored rating and the stored weight
\* as they were and updates no aggregate rating of a community.
InvalidUpdateChangesNothing ==
    \A rating \in RatingInputs, weight \in WeightInputs :
       \A p \in {update_values(pcr, rating, weight)} :
          Invalid(p) =>
             /\ p.rating = pcr.rating
             /\ p.weight = pcr.weight
             /\ p.aggregate = pcr.aggregate

=============================================================================
